---- MODULE Spec2Model ----
(***************************************************************************)
(* artemis: hubs, event agents and families.                               *)
(*                                                                         *)
(* Go maps are functions whose DOMAIN is the set of keys present.  A       *)
(* channel of events is the sequence of the *Event pointers buffered in    *)
(* it, each with the number id of the Broadcast call that sent it.         *)
(***************************************************************************)
EXTENDS Integers, Sequences, FiniteSets, Bags, TLC

VARIABLES
    hubSubscriptions,    \* Hub.subscriptions: hub -> (kind -> SubscriptionSet)
    agentSubscriptions,  \* EventAgent.subscriptions: client -> (kind -> EventHandlerSet)
    ready,               \* EventAgent.ready
    events,              \* EventAgent.events: the buffered channel
    spawned,             \* listen goroutines started by `go agent.listen()`, not yet run
    listening,           \* listen goroutines inside their receive loop
    delegate,            \* EventAgent.Delegate
    messageSubscriptions,\* MessageAgent.subscriptions: client -> (kind -> MessageHandlerSet)
    famEvents,           \* Family.Events: family -> [subscribers, subscriptions]
    famMessages,         \* Family.Messages: family -> [subscribers, subscriptions]
    unsubscribed,        \* history: <<agent, kind, h>> removed by EventAgent.Unsubscribe
                         \*   and not passed to Subscribe again since
    messageUnsubscribed, \* history: the same for MessageAgent.Unsubscribe
    messages,            \* history: the messages received, in order
    responses,           \* history: bag of message handler invocations
    hubs,                \* the package's registry `hubs`: ID -> *Hub
    defaultHub,          \* the package variable defaultHub: NoHub (nil) or a *Hub
    hubInstances,        \* the Hub objects allocated: *Hub -> [ID, subscriptions]
    callers,             \* the goroutines inside DefaultHub(): goroutine -> position
    hubCalls,            \* history: the NewHub and DefaultHub calls that returned
    pingPeriod,          \* the package variable pingPeriod, in seconds
    pongTimeout,         \* the package variable pongTimeout, in seconds
    lastConfig,          \* history: the last SetPingPeriod / SetPongTimeout call
    sendText,            \* client -> its sendText channel
    sendBinary,          \* client -> its sendBinary channel
    conn,                \* client -> its connection: transport, channels, read and write task
    panic,               \* the panic that ended the process, or Nil
    reported,            \* history: the errors sent on Errors, with the client they are about
    attempts,            \* history: what each Hub.NewClient call returned and started
    inflight,            \* client -> the events its listen goroutines are running handlers for
    log,                 \* history: the handler invocations of the listen goroutines, in order
    parsed,              \* history: the ParseJSONMessage calls and what they returned
    heap,                \* the Event objects allocated by newEvent: pointer -> Event
    calling,             \* client -> the Broadcast a handler on its listen goroutine is in
    running,             \* thread -> the Family call it is in, and where
    setup,               \* connection -> how far NewClient and the tasks it started have got
    sending,             \* the Broadcast call in progress: NotSending or [id, todo]
    bcasts,              \* history: the Broadcast calls made, in order
    invocations,         \* history: bag of handler invocations [id, agent, handler, event]
    last,                \* history: the last API call, with the warnings it raised
    steps                \* history: number of API calls made

\* The state of the parts of the library that the publish/subscribe calls
\* never touch.
messageVars == <<messages, responses>>
registryVars == <<hubs, defaultHub, hubInstances, callers, hubCalls>>
configVars == <<pingPeriod, pongTimeout, lastConfig>>
sendVars == <<sendText, sendBinary>>
connVars == <<conn, panic, reported, attempts>>
dispatchVars == <<inflight, log>>
\* The state of the calls and tasks that are followed statement by statement.
taskVars == <<parsed, heap, calling, running, setup>>
otherVars == <<messageVars, registryVars, configVars, sendVars, connVars, dispatchVars,
               taskVars>>

vars == <<hubSubscriptions, agentSubscriptions, ready, events, spawned, listening,
          delegate, messageSubscriptions, famEvents, famMessages,
          unsubscribed, messageUnsubscribed,
          sending, bcasts, invocations, last, steps, otherVars>>

\* The state of hubs, event agents and families with its history.
pubsubVars == <<hubSubscriptions, agentSubscriptions, ready, events, spawned, listening,
                delegate, messageSubscriptions, famEvents, famMessages,
                unsubscribed, messageUnsubscribed,
                sending, bcasts, invocations, last, steps>>

\* What the calls on event agents and hubs leave alone.
familyVars == <<messageSubscriptions, famEvents, famMessages>>

\* The record of the handlers removed, which only the subscription calls change.
offVars == <<unsubscribed, messageUnsubscribed>>

(***************************************************************************)
(* Bounds of the model.                                                    *)
(***************************************************************************)
MaxSteps == 4
MaxBroadcasts == 2
MaxFamilySteps == 5
MaxCascadeSteps == 6
MaxMessages == 2
MaxOffSteps == 6
MaxJoinSteps == 4
MaxPushSteps == 5
MaxConnSteps == 3
MaxFrames == 1
MaxParses == 3
MaxListenSteps == 4
MaxOverflow == 3
MaxReentrant == 4
MaxShareSteps == 4
MaxLifeSteps == 5
MaxAttempts == 4
MaxHubs == 3
MaxHubCalls == 4

\* make(chan *Event, 256)
EventQueueCap == 256

\* A nil Go value: of a payload (Nil), of an object reference (NilRef), of the
\* DataGetter interface (NilGetter), and no Broadcast in progress (NotSending).
Nil == "nil"
NilRef == <<"nil">>
NilGetter == [isNil |-> TRUE, data |-> Nil]
NotSending == [id |-> 0, todo |-> {}]

\* The application threads that call into one family at the same time, and a
\* thread that is in no call.
Threads == {"t1", "t2"}
Idle == [op |-> "idle", f |-> "none", arg |-> <<>>, pc |-> "idle"]

\* The connections whose creation is followed, and one that no request has
\* asked for yet.
Connections == {"n1", "n2"}
NotConnected == [pc |-> "none", queues |-> "nil", subscriptions |-> "nil",
                 reader |-> "none", writer |-> "none"]

Hubs == {"hA", "hB"}
Clients == {"c1", "c2", "c3"}
Kinds == {"k1", "k2"}
Families == {"f1", "f2"}

\* The hub each client was created by (Hub.NewClient / Hub.NewEventAgent set a.Hub).
ClientHub == [c \in Clients |-> IF c = "c3" THEN "hB" ELSE "hA"]

\* Go values that stand for the two objects a recipient can be.
ClientRef(c) == <<"Client", c>>
AgentRef(c) == <<"EventAgent", c>>

(***************************************************************************)
(* Handlers are Go func values: a code pointer and the captured            *)
(* environment.  Two closures made from the same func literal share the    *)
(* code pointer.                                                           *)
(***************************************************************************)
Handlers == { [code |-> "fn1", env |-> "x"],
              [code |-> "fn1", env |-> "y"],
              [code |-> "fn2", env |-> "x"] }


ErrDuplicateHandler == "ErrDuplicateHandler"
ErrNoListeners == "Hub fired event but no one was listening"

(***************************************************************************)
(* Go map helpers.                                                         *)
(***************************************************************************)
EmptyMap == [x \in {} |-> Nil]
MapPut(m, k, v) == [x \in (DOMAIN m) \cup {k} |-> IF x = k THEN v ELSE m[x]]
MapDelete(m, k) == [x \in (DOMAIN m) \ {k} |-> m[x]]

(***************************************************************************)
(* EventHandlerSet                                                         *)
(***************************************************************************)
\* fmt.Sprintf("%v", eh) prints the func value's code pointer.
getEventHandlerKey(eh) == eh.code

\* EventHandlerSet.Add: <<set, warnings>>
EventHandlerSetAdd(ehs, h) ==
    LET key == getEventHandlerKey(h) IN
    IF key \in DOMAIN ehs
    THEN <<ehs, <<ErrDuplicateHandler>> >>
    ELSE <<MapPut(ehs, key, h), <<>> >>

EventHandlerSetRemove(ehs, h) == MapDelete(ehs, getEventHandlerKey(h))

\* The handlers a set holds, and how many entries hold handler h.
HandlersIn(ehs) == {ehs[key] : key \in DOMAIN ehs}
Registrations(ehs, h) == Cardinality({key \in DOMAIN ehs : ehs[key] = h})

(***************************************************************************)
(* SubscriptionSet and Hub.subscribe / Hub.unsubscribe on the map          *)
(* kind -> SubscriptionSet of one hub.                                     *)
(***************************************************************************)
SubscriptionSetAdd(ss, c) == IF c \notin ss THEN ss \cup {c} ELSE ss
SubscriptionSetRemove(ss, c) == ss \ {c}

HubSubscribe(subs, kind, c) ==
    LET made == IF kind \notin DOMAIN subs THEN MapPut(subs, kind, {}) ELSE subs
    IN  MapPut(made, kind, SubscriptionSetAdd(made[kind], c))

HubUnsubscribe(subs, kind, c) ==
    IF kind \in DOMAIN subs
    THEN MapPut(subs, kind, SubscriptionSetRemove(subs[kind], c))
    ELSE subs

(***************************************************************************)
(* The store: the part of the state the subscription calls read and write. *)
(***************************************************************************)
Store == [hub |-> hubSubscriptions, sub |-> agentSubscriptions, ready |-> ready,
          spawned |-> spawned, msub |-> messageSubscriptions,
          fe |-> famEvents, fm |-> famMessages,
          off |-> unsubscribed, moff |-> messageUnsubscribed, warns |-> <<>>]

\* EventAgent.Subscribe
AgentSubscribe(S, a, kind, do) ==
    LET started == IF ~S.ready[a] THEN S.spawned[a] + 1 ELSE S.spawned[a]
        made    == IF kind \notin DOMAIN S.sub[a]
                   THEN MapPut(S.sub[a], kind, EmptyMap) ELSE S.sub[a]
        added   == EventHandlerSetAdd(made[kind], do)
        h       == ClientHub[a]
    IN  [S EXCEPT !.spawned[a] = started,
                  !.sub[a] = MapPut(made, kind, added[1]),
                  !.warns = @ \o added[2],
                  !.hub[h] = HubSubscribe(@, kind, a),
                  !.off = @ \ {<<a, kind, do>>}]

\* The handlers registered for kind on an agent's own map.
AgentHandlers(sub, a, kind) ==
    IF kind \in DOMAIN sub[a] THEN HandlersIn(sub[a][kind]) ELSE {}

\* The record of a handler that was registered and is now asked to be removed.
Removed(off, had, a, kind, do) == IF do \in had THEN off \cup {<<a, kind, do>>} ELSE off

\* An Unsubscribe that stops the routing and keeps the handler.
AgentUnsubscribeRoutingOnly(S, a, kind, do) ==
    [S EXCEPT !.hub[ClientHub[a]] = HubUnsubscribe(@, kind, a),
              !.off = Removed(@, AgentHandlers(S.sub, a, kind), a, kind, do)]

\* EventAgent.Unsubscribe
AgentUnsubscribe(S, a, kind, do) ==
    LET removed == IF kind \in DOMAIN S.sub[a]
                   THEN MapPut(S.sub[a], kind, EventHandlerSetRemove(S.sub[a][kind], do))
                   ELSE S.sub[a]
        h       == ClientHub[a]
    IN  [S EXCEPT !.sub[a] = removed,
                  !.hub[h] = HubUnsubscribe(@, kind, a),
                  !.off = Removed(@, AgentHandlers(S.sub, a, kind), a, kind, do)]

(***************************************************************************)
(* MessageAgent.Subscribe / Unsubscribe and MessageHandlerSet: the handler *)
(* set of a message agent, kept like the one of an event agent but with no *)
(* hub behind it.                                                          *)
(***************************************************************************)
MessageHandlerSetAdd(mhs, h) ==
    LET key == getEventHandlerKey(h) IN
    IF key \in DOMAIN mhs
    THEN <<mhs, <<ErrDuplicateHandler>> >>
    ELSE <<MapPut(mhs, key, h), <<>> >>

MessageHandlerSetRemove(mhs, h) == MapDelete(mhs, getEventHandlerKey(h))

MessageSubscribe(S, a, kind, do) ==
    LET made  == IF kind \notin DOMAIN S.msub[a]
                 THEN MapPut(S.msub[a], kind, EmptyMap) ELSE S.msub[a]
        added == MessageHandlerSetAdd(made[kind], do)
    IN  [S EXCEPT !.msub[a] = MapPut(made, kind, added[1]),
                  !.warns = @ \o added[2],
                  !.moff = @ \ {<<a, kind, do>>}]

\* The handlers a received message of this kind is dispatched to.
MessageHandlers(msub, a, kind) ==
    IF kind \in DOMAIN msub[a] THEN HandlersIn(msub[a][kind]) ELSE {}

MessageUnsubscribe(S, a, kind, do) ==
    IF kind \in DOMAIN S.msub[a]
    THEN [S EXCEPT !.msub[a] = MapPut(@, kind, MessageHandlerSetRemove(@[kind], do)),
                   !.moff = Removed(@, MessageHandlers(S.msub, a, kind), a, kind, do)]
    ELSE S

(***************************************************************************)
(* Family: eventSubscriber and messageSubscriber.  The ranges over Go maps *)
(* are folds over the set of their entries.                                *)
(***************************************************************************)
ErrDuplicateDelegate == "ErrDuplicateDelegate"
ErrNoDelegates == "ErrNoDelegates"

\* The <<kind, handler>> entries of a map kind -> handler set.
Entries(subs) == UNION {{<<k, subs[k][key]>> : key \in DOMAIN subs[k]} : k \in DOMAIN subs}

RECURSIVE AgentSubscribeEach(_, _, _)
AgentSubscribeEach(S, a, es) ==
    IF es = {} THEN S
    ELSE LET e == CHOOSE x \in es : TRUE
         IN  AgentSubscribeEach(AgentSubscribe(S, a, e[1], e[2]), a, es \ {e})

RECURSIVE AgentUnsubscribeEach(_, _, _)
AgentUnsubscribeEach(S, a, es) ==
    IF es = {} THEN S
    ELSE LET e == CHOOSE x \in es : TRUE
         IN  AgentUnsubscribeEach(AgentUnsubscribe(S, a, e[1], e[2]), a, es \ {e})

RECURSIVE MessageSubscribeEach(_, _, _)
MessageSubscribeEach(S, a, es) ==
    IF es = {} THEN S
    ELSE LET e == CHOOSE x \in es : TRUE
         IN  MessageSubscribeEach(MessageSubscribe(S, a, e[1], e[2]), a, es \ {e})

RECURSIVE MessageUnsubscribeEach(_, _, _)
MessageUnsubscribeEach(S, a, es) ==
    IF es = {} THEN S
    ELSE LET e == CHOOSE x \in es : TRUE
         IN  MessageUnsubscribeEach(MessageUnsubscribe(S, a, e[1], e[2]), a, es \ {e})

\* An eventSubscriber.Add without the membership test.
EventSubscriberAddAgain(S, f, d) ==
    LET T == AgentSubscribeEach(S, d, Entries(S.fe[f].subscriptions))
    IN  [T EXCEPT !.fe[f].subscribers = @ \cup {d}]

\* eventSubscriber.Add
EventSubscriberAdd(S, f, d) ==
    IF d \in S.fe[f].subscribers
    THEN [S EXCEPT !.warns = Append(@, ErrDuplicateDelegate)]
    ELSE LET T == AgentSubscribeEach(S, d, Entries(S.fe[f].subscriptions))
         IN  [T EXCEPT !.fe[f].subscribers = @ \cup {d}]

\* An eventSubscriber.Remove that leaves the delegate in the subscribers map.
EventSubscriberRemoveKeeping(S, f, d) ==
    IF d \notin S.fe[f].subscribers
    THEN [S EXCEPT !.warns = Append(@, ErrNoDelegates)]
    ELSE AgentUnsubscribeEach(S, d, Entries(S.fe[f].subscriptions))

\* eventSubscriber.Remove
EventSubscriberRemove(S, f, d) ==
    IF d \notin S.fe[f].subscribers
    THEN [S EXCEPT !.warns = Append(@, ErrNoDelegates)]
    ELSE LET T == AgentUnsubscribeEach(S, d, Entries(S.fe[f].subscriptions))
         IN  [T EXCEPT !.fe[f].subscribers = @ \ {d}]

\* eventSubscriber.Subscribe
EventSubscriberSubscribe(S, f, kind, do) ==
    LET made  == IF kind \notin DOMAIN S.fe[f].subscriptions
                 THEN MapPut(S.fe[f].subscriptions, kind, EmptyMap)
                 ELSE S.fe[f].subscriptions
        added == EventHandlerSetAdd(made[kind], do)
        T     == [S EXCEPT !.fe[f].subscriptions = MapPut(made, kind, added[1]),
                           !.warns = @ \o added[2]]
    IN  LET RECURSIVE Each(_, _)
            Each(U, ds) ==
                IF ds = {} THEN U
                ELSE LET sub == CHOOSE x \in ds : TRUE
                     IN  Each(AgentSubscribe(U, sub, kind, do), ds \ {sub})
        IN  Each(T, T.fe[f].subscribers)

\* An Unsubscribe that forgets the members: only the family's own set changes.
EventSubscriberUnsubscribeOwnSet(S, f, kind, do) ==
    IF kind \in DOMAIN S.fe[f].subscriptions
    THEN [S EXCEPT !.fe[f].subscriptions =
                       MapPut(@, kind, EventHandlerSetRemove(@[kind], do))]
    ELSE S

\* eventSubscriber.Unsubscribe
EventSubscriberUnsubscribe(S, f, kind, do) ==
    LET T == IF kind \in DOMAIN S.fe[f].subscriptions
             THEN [S EXCEPT !.fe[f].subscriptions =
                                MapPut(@, kind, EventHandlerSetRemove(@[kind], do))]
             ELSE S
    IN  LET RECURSIVE Each(_, _)
            Each(U, ds) ==
                IF ds = {} THEN U
                ELSE LET sub == CHOOSE x \in ds : TRUE
                     IN  Each(AgentUnsubscribe(U, sub, kind, do), ds \ {sub})
        IN  Each(T, T.fe[f].subscribers)

\* messageSubscriber.Add
MessageSubscriberAdd(S, f, d) ==
    IF d \in S.fm[f].subscribers
    THEN [S EXCEPT !.warns = Append(@, ErrDuplicateDelegate)]
    ELSE LET T == MessageSubscribeEach(S, d, Entries(S.fm[f].subscriptions))
         IN  [T EXCEPT !.fm[f].subscribers = @ \cup {d}]

\* messageSubscriber.Remove
MessageSubscriberRemove(S, f, d) ==
    IF d \notin S.fm[f].subscribers
    THEN [S EXCEPT !.warns = Append(@, ErrNoDelegates)]
    ELSE LET T == MessageUnsubscribeEach(S, d, Entries(S.fm[f].subscriptions))
         IN  [T EXCEPT !.fm[f].subscribers = @ \ {d}]

\* messageSubscriber.Subscribe
MessageSubscriberSubscribe(S, f, kind, do) ==
    LET made  == IF kind \notin DOMAIN S.fm[f].subscriptions
                 THEN MapPut(S.fm[f].subscriptions, kind, EmptyMap)
                 ELSE S.fm[f].subscriptions
        added == MessageHandlerSetAdd(made[kind], do)
        T     == [S EXCEPT !.fm[f].subscriptions = MapPut(made, kind, added[1]),
                           !.warns = @ \o added[2]]
    IN  LET RECURSIVE Each(_, _)
            Each(U, ds) ==
                IF ds = {} THEN U
                ELSE LET sub == CHOOSE x \in ds : TRUE
                     IN  Each(MessageSubscribe(U, sub, kind, do), ds \ {sub})
        IN  Each(T, T.fm[f].subscribers)

\* messageSubscriber.Unsubscribe
MessageSubscriberUnsubscribe(S, f, kind, do) ==
    LET T == IF kind \in DOMAIN S.fm[f].subscriptions
             THEN [S EXCEPT !.fm[f].subscriptions =
                                MapPut(@, kind, MessageHandlerSetRemove(@[kind], do))]
             ELSE S
    IN  LET RECURSIVE Each(_, _)
            Each(U, ds) ==
                IF ds = {} THEN U
                ELSE LET sub == CHOOSE x \in ds : TRUE
                     IN  Each(MessageUnsubscribe(U, sub, kind, do), ds \ {sub})
        IN  Each(T, T.fm[f].subscribers)

\* Family.Add, Family.Remove, Family.hasMember
FamilyAddTo(S, f, d) == EventSubscriberAdd(MessageSubscriberAdd(S, f, d), f, d)

\* The range over the subscribers of eventSubscriber.Subscribe and Unsubscribe.
RECURSIVE SubscribeMembers(_, _, _, _)
SubscribeMembers(S, ds, kind, do) ==
    IF ds = {} THEN S
    ELSE LET sub == CHOOSE x \in ds : TRUE
         IN  SubscribeMembers(AgentSubscribe(S, sub, kind, do), ds \ {sub}, kind, do)

RECURSIVE UnsubscribeMembers(_, _, _, _)
UnsubscribeMembers(S, ds, kind, do) ==
    IF ds = {} THEN S
    ELSE LET sub == CHOOSE x \in ds : TRUE
         IN  UnsubscribeMembers(AgentUnsubscribe(S, sub, kind, do), ds \ {sub}, kind, do)

\* A call on a family taken in two steps, as the thread r.op of which r.pc is
\* the statement it has reached: Family.Add(d) and Family.Remove(d) first test
\* the membership and range over the family's subscriptions, then write the
\* subscribers map; Events.Subscribe and Events.Unsubscribe first write the
\* family's handler set, then range over the subscribers.  No step takes a
\* lock.  The result is the store and where the thread is afterwards.
familyStep(S, r) ==
    LET f == r.f IN
    CASE r.op = "Add" /\ r.pc = "enter" ->
             LET M == MessageSubscriberAdd(S, f, r.arg[1])
             IN  IF r.arg[1] \in M.fe[f].subscribers
                 THEN [store |-> [M EXCEPT !.warns = Append(@, ErrDuplicateDelegate)],
                       next |-> Idle]
                 ELSE [store |-> AgentSubscribeEach(M, r.arg[1],
                                                    Entries(M.fe[f].subscriptions)),
                       next |-> [r EXCEPT !.pc = "insert"]]
      [] r.op = "Add" /\ r.pc = "insert" ->
             [store |-> [S EXCEPT !.fe[f].subscribers = @ \cup {r.arg[1]}], next |-> Idle]
      [] r.op = "Remove" /\ r.pc = "enter" ->
             LET M == MessageSubscriberRemove(S, f, r.arg[1])
             IN  IF r.arg[1] \notin M.fe[f].subscribers
                 THEN [store |-> [M EXCEPT !.warns = Append(@, ErrNoDelegates)],
                       next |-> Idle]
                 ELSE [store |-> AgentUnsubscribeEach(M, r.arg[1],
                                                      Entries(M.fe[f].subscriptions)),
                       next |-> [r EXCEPT !.pc = "delete"]]
      [] r.op = "Remove" /\ r.pc = "delete" ->
             [store |-> [S EXCEPT !.fe[f].subscribers = @ \ {r.arg[1]}], next |-> Idle]
      [] r.op = "Subscribe" /\ r.pc = "enter" ->
             LET made  == IF r.arg[1] \notin DOMAIN S.fe[f].subscriptions
                          THEN MapPut(S.fe[f].subscriptions, r.arg[1], EmptyMap)
                          ELSE S.fe[f].subscriptions
                 added == EventHandlerSetAdd(made[r.arg[1]], r.arg[2])
             IN  [store |-> [S EXCEPT !.fe[f].subscriptions = MapPut(made, r.arg[1], added[1]),
                                      !.warns = @ \o added[2]],
                  next |-> [r EXCEPT !.pc = "range"]]
      [] r.op = "Subscribe" /\ r.pc = "range" ->
             [store |-> SubscribeMembers(S, S.fe[f].subscribers, r.arg[1], r.arg[2]),
              next |-> Idle]
      [] r.op = "Unsubscribe" /\ r.pc = "enter" ->
             [store |-> IF r.arg[1] \in DOMAIN S.fe[f].subscriptions
                        THEN [S EXCEPT !.fe[f].subscriptions =
                                  MapPut(@, r.arg[1], EventHandlerSetRemove(@[r.arg[1]], r.arg[2]))]
                        ELSE S,
              next |-> [r EXCEPT !.pc = "range"]]
      [] r.op = "Unsubscribe" /\ r.pc = "range" ->
             [store |-> UnsubscribeMembers(S, S.fe[f].subscribers, r.arg[1], r.arg[2]),
              next |-> Idle]
FamilyRemoveFrom(S, f, d) == EventSubscriberRemove(MessageSubscriberRemove(S, f, d), f, d)
hasMember(S, f, d) == d \in S.fe[f].subscribers \/ d \in S.fm[f].subscribers

(***************************************************************************)
(* Outbound messages                                                       *)
(***************************************************************************)
SendQueueCap == 256

\* The panics of the Go runtime that end the process.
SendOnClosedChannel == "send on closed channel"
CloseOfClosedChannel == "close of closed channel"
NilDereference == "nil pointer dereference"

\* A connection as NewClient leaves it: the transport and both channels are
\* open, the read task is in its loop and the write task in its select.  The
\* read task runs messageCleanup todo more times after the one it is in; last
\* is what the write task's latest round did.
Connected == [transport |-> "open", textChan |-> "open", binaryChan |-> "open",
              reader |-> [pc |-> "read", todo |-> 0],
              writer |-> [pc |-> "select", last |-> "none"]]
TextMessage == "TextMessage"
BinaryMessage == "BinaryMessage"
PingMessage == "PingMessage"
ErrUnparseableMessage == "ErrUnparseableMessage"
ErrBadMessageType == "ErrBadMessageType"

\* The outbound queues, and the errors a push has reported so far.
Queues == [text |-> sendText, binary |-> sendBinary, warns |-> <<>>,
           textChan |-> [c \in Clients |-> conn[c].textChan],
           binaryChan |-> [c \in Clients |-> conn[c].binaryChan], panic |-> panic]

\* PushMessage of one client: the switch on the frame type.
ClientPushMessage(Q, c, m, messageType) ==
    CASE messageType = BinaryMessage ->
             IF Q.binaryChan[c] = "closed" THEN [Q EXCEPT !.panic = SendOnClosedChannel]
             ELSE [Q EXCEPT !.binary[c] = Append(@, m)]
      [] messageType = TextMessage ->
             IF Q.textChan[c] = "closed" THEN [Q EXCEPT !.panic = SendOnClosedChannel]
             ELSE [Q EXCEPT !.text[c] = Append(@, m)]
      [] OTHER -> [Q EXCEPT !.warns = Append(@, ErrUnparseableMessage)]

\* A fan-out to every client, member or not.
FamilyPushTargetsAll(S, f) == Clients

\* The delegates Family.PushMessage ranges over.
FamilyPushTargets(S, f) == S.fm[f].subscribers

\* Family.PushMessage: the loop over the targets left, ds.
RECURSIVE FamilyPushEach(_, _, _, _)
FamilyPushEach(Q, ds, m, messageType) ==
    IF ds = {} \/ Q.panic # Nil THEN Q
    ELSE LET d == CHOOSE x \in ds : TRUE
         IN  FamilyPushEach(ClientPushMessage(Q, d, m, messageType), ds \ {d}, m, messageType)

(***************************************************************************)
(* The connection: messageCleanup, the read task and the write task.       *)
(***************************************************************************)
ErrRead == "read error"
ErrWrite == "write error"
errNotYetImplemented == "errNotYetImplemented"
CleanupPcs == {"recvBinary", "closeBinary", "recvText", "closeText", "closeConn"}

\* What one connection's tasks work on: its record, its two channels' buffers
\* and the process.
View(c) == [cn |-> conn[c], text |-> sendText[c], binary |-> sendBinary[c], panic |-> panic]

\* messageCleanup waits in a receive on a channel that is open and empty.
CleanupBlocked(V, pc) ==
    \/ pc = "recvBinary" /\ V.binary = <<>> /\ V.cn.binaryChan = "open"
    \/ pc = "recvText" /\ V.text = <<>> /\ V.cn.textChan = "open"

\* messageCleanup, one step from pc: a receive that yields a value (also the
\* buffered value of a closed channel) is followed by close, a receive on a
\* closed and drained channel is not; then the transport is closed.
messageCleanup(V, pc) ==
    CASE pc = "recvBinary" ->
             IF V.binary # <<>>
             THEN [v |-> [V EXCEPT !.binary = Tail(@)], pc |-> "closeBinary"]
             ELSE [v |-> V, pc |-> "recvText"]
      [] pc = "closeBinary" ->
             IF V.cn.binaryChan = "closed"
             THEN [v |-> [V EXCEPT !.panic = CloseOfClosedChannel], pc |-> pc]
             ELSE [v |-> [V EXCEPT !.cn.binaryChan = "closed"], pc |-> "recvText"]
      [] pc = "recvText" ->
             IF V.text # <<>>
             THEN [v |-> [V EXCEPT !.text = Tail(@)], pc |-> "closeText"]
             ELSE [v |-> V, pc |-> "closeConn"]
      [] pc = "closeText" ->
             IF V.cn.textChan = "closed"
             THEN [v |-> [V EXCEPT !.panic = CloseOfClosedChannel], pc |-> pc]
             ELSE [v |-> [V EXCEPT !.cn.textChan = "closed"], pc |-> "closeConn"]
      [] pc = "closeConn" ->
             [v |-> [V EXCEPT !.cn.transport = "closed"], pc |-> "returned"]

\* startReading when ReadMessage has returned an error.  A close frame has run
\* handleClose, that is messageCleanup, inside ReadMessage before; the loop
\* then reports the error, runs messageCleanup and breaks, and the deferred
\* messageCleanup runs.
startReadingFailed(closeFrame) ==
    IF closeFrame THEN [pc |-> "recvBinary", todo |-> 2]
    ELSE [pc |-> "recvBinary", todo |-> 1]

\* The task when its messageCleanup has returned.
AfterCleanup(task, t) ==
    IF task = "reader" /\ t.todo > 0
    THEN [t EXCEPT !.pc = "recvBinary", !.todo = @ - 1]
    ELSE [t EXCEPT !.pc = "done"]

\* The frames a connection reads: text with a kind, text without, binary.
Frames == {[type |-> TextMessage, kind |-> "k1"], [type |-> TextMessage, kind |-> Nil],
           [type |-> BinaryMessage, kind |-> Nil]}

\* receiveMessage: the errors it reports, the handlers MessageRespond runs and
\* the panic it ends in.  A parse error is reported and MessageRespond is
\* called all the same: with a nil interface for a binary frame, whose Name()
\* panics, and with a nil *ParsedMessage for a text frame, whose Name() is
\* not in the source and either panics or names no kind (named).
receiveMessage(msub, c, frame, named) ==
    CASE frame.type = BinaryMessage ->
             [errs |-> {<<c, errNotYetImplemented>>}, run |-> {}, panic |-> NilDereference]
      [] frame.type = TextMessage /\ frame.kind = Nil ->
             [errs |-> {<<c, ErrUnparseableMessage>>}, run |-> {},
              panic |-> IF named THEN Nil ELSE NilDereference]
      [] frame.type = TextMessage /\ frame.kind # Nil ->
             [errs |-> {}, run |-> MessageHandlers(msub, c, frame.kind), panic |-> Nil]
      [] OTHER -> [errs |-> {<<c, ErrUnparseableMessage>>}, run |-> {}, panic |-> Nil]

\* A write loop that returns when a write of a payload fails.
doWriteStopping(w, ok) ==
    IF ok THEN [w EXCEPT !.last = "written"]
    ELSE [pc |-> "recvBinary", last |-> "write failed"]

\* startWriting after doWrite of a dequeued payload: the loop goes on.
doWrite(w, ok) == [w EXCEPT !.last = IF ok THEN "written" ELSE "write failed"]

\* startWriting after the ticker's ping: a failed WriteControl returns, and
\* the deferred messageCleanup runs.
pingWrite(w, ok) ==
    IF ok THEN [w EXCEPT !.last = "pinged"]
    ELSE [pc |-> "recvBinary", last |-> "ping failed"]

\* startWriting when a receive finds its channel closed: it returns.
foundClosed(w) == [pc |-> "recvBinary", last |-> "found closed"]

\* A write succeeds or fails on an open transport and fails on a closed one.
WriteOutcomes(c) == IF conn[c].transport = "open" THEN BOOLEAN ELSE {FALSE}

(***************************************************************************)
(* The default text parser.  A payload is the JSON document its bytes      *)
(* spell: an object with its members, an array, or no JSON at all.  A JSON *)
(* value keeps its type, which json.Unmarshal turns into the Go type of    *)
(* the decoded value: string, float64 or a nil interface.                  *)
(***************************************************************************)
JSONString(v) == [type |-> "string", value |-> v]
JSONNumber(v) == [type |-> "number", value |-> v]
JSONNull == [type |-> "null", value |-> "null"]
JSONObject(fields) == [json |-> "object", fields |-> fields]

Payloads ==
    { JSONObject([n \in {"kind", "item1"} |->
                     IF n = "kind" THEN JSONString("testMessage") ELSE JSONString("thing")]),
      JSONObject([n \in {"item1"} |-> JSONString("thing")]),
      JSONObject([n \in {"name"} |-> JSONString("testMessage")]),
      JSONObject([n \in {"kind"} |-> JSONNumber("7")]),
      JSONObject([n \in {"kind"} |-> JSONNull]),
      [json |-> "array", fields |-> EmptyMap],
      [json |-> "invalid", fields |-> EmptyMap] }

ErrJSONSyntax == "json: SyntaxError"
ErrJSONType == "json: UnmarshalTypeError"
InterfaceConversion == "interface conversion: interface {} is not string"

\* json.Unmarshal(m, &pm) into a map[string]interface{}
jsonUnmarshal(m) ==
    CASE m.json = "object" -> [err |-> Nil, pm |-> m.fields]
      [] m.json = "array" -> [err |-> ErrJSONType, pm |-> EmptyMap]
      [] OTHER -> [err |-> ErrJSONSyntax, pm |-> EmptyMap]

NewParsedMessage(kind, pm, m) == [kind |-> kind, data |-> pm, raw |-> m]

\* ParseJSONMessage: the message (none, or one), the error and the panic.
\* kind.(string) is a type assertion with no `ok`: it panics when the decoded
\* value is not a string.
ParseJSONMessage(m) ==
    LET d == jsonUnmarshal(m) IN
    IF d.err # Nil THEN [msg |-> <<>>, err |-> d.err, panic |-> Nil]
    ELSE IF "kind" \notin DOMAIN d.pm
         THEN [msg |-> <<>>, err |-> ErrUnparseableMessage, panic |-> Nil]
         ELSE IF d.pm["kind"].type # "string"
              THEN [msg |-> <<>>, err |-> Nil, panic |-> InterfaceConversion]
              ELSE [msg |-> <<NewParsedMessage(d.pm["kind"].value, d.pm, m)>>,
                    err |-> Nil, panic |-> Nil]

(***************************************************************************)
(* Creating a client: the upgrade handshake succeeds (upgraded) or fails.  *)
(***************************************************************************)
ErrUpgrade == "upgrade error"

\* A connect that starts its tasks before it looks at the handshake's error.
connectStartingFirst(upgraded) ==
    [err |-> IF upgraded THEN Nil ELSE ErrUpgrade, readTasks |-> 1, writeTasks |-> 1]

\* connect: the error it returns and the tasks it has started.
connect(upgraded) ==
    IF ~upgraded THEN [err |-> ErrUpgrade, readTasks |-> 0, writeTasks |-> 0]
    ELSE [err |-> Nil, readTasks |-> 1, writeTasks |-> 1]

\* Hub.NewMessageAgent
NewMessageAgent(h, upgraded) ==
    LET res == connect(upgraded)
    IN  [agent |-> IF res.err # Nil THEN Nil ELSE "agent", err |-> res.err,
         readTasks |-> res.readTasks, writeTasks |-> res.writeTasks]

\* Hub.NewClient
HubNewClient(h, upgraded) ==
    LET ma == NewMessageAgent(h, upgraded)
    IN  IF ma.err # Nil
        THEN [client |-> Nil, Messages |-> Nil, err |-> ma.err, eventAgents |-> 0,
              readTasks |-> ma.readTasks, writeTasks |-> ma.writeTasks]
        ELSE [client |-> "client", Messages |-> ma.agent, err |-> Nil, eventAgents |-> 1,
              readTasks |-> ma.readTasks, writeTasks |-> ma.writeTasks]

\* The hub each family was created on (Hub.NewFamily).
FamilyHub == [f \in Families |-> IF f = "f2" THEN "hB" ELSE "hA"]
ErrHubMismatch == "ErrHubMismatch"

\* A Join that adds the client to every family passed, whatever its hub.
RECURSIVE JoinResultAnyHub(_, _, _, _)
JoinResultAnyHub(S, c, fs, err) ==
    IF fs = <<>> THEN [store |-> S, err |-> err]
    ELSE IF FamilyHub[Head(fs)] # ClientHub[c]
         THEN JoinResultAnyHub(FamilyAddTo(S, Head(fs), c), c, Tail(fs), ErrHubMismatch)
         ELSE JoinResultAnyHub(FamilyAddTo(S, Head(fs), c), c, Tail(fs), err)

\* Client.Join: the loop over the families passed, from the store S and the
\* error err so far; the store and the error it returns.
RECURSIVE JoinResult(_, _, _, _)
JoinResult(S, c, fs, err) ==
    IF fs = <<>> THEN [store |-> S, err |-> err]
    ELSE IF FamilyHub[Head(fs)] # ClientHub[c]
         THEN JoinResult(S, c, Tail(fs), ErrHubMismatch)
         ELSE JoinResult(FamilyAddTo(S, Head(fs), c), c, Tail(fs), err)

(***************************************************************************)
(* The registry of hubs: NewHub and DefaultHub.  A *Hub is the index of    *)
(* the object in the sequence of the objects allocated.                    *)
(***************************************************************************)
NoHub == 0
defaultHubID == "artemis:DefaultHub:74157a9f-9fd2-4030-b704-f3ce20eb6df7"
ErrDuplicateHubID == "ErrDuplicateHubID"
HubIDs == {"h1", "h2", defaultHubID}
Goroutines == {"g1", "g2"}

\* &Hub{id, make(map[string]SubscriptionSet)}
NewHubObject(id) == [ID |-> id, subscriptions |-> EmptyMap]

\* A NewHub that registers the hub again under an ID already in use.
NewHubResultOverwriting(reg, objs, id) ==
    [ret |-> Len(objs) + 1, err |-> Nil,
     hubs |-> MapPut(reg, id, Len(objs) + 1),
     objs |-> Append(objs, NewHubObject(id))]

\* NewHub: the hub and error returned, and the registry and objects it leaves.
NewHubResult(reg, objs, id) ==
    IF id \in DOMAIN reg
    THEN [ret |-> reg[id], err |-> ErrDuplicateHubID, hubs |-> reg, objs |-> objs]
    ELSE [ret |-> Len(objs) + 1, err |-> Nil,
          hubs |-> MapPut(reg, id, Len(objs) + 1),
          objs |-> Append(objs, NewHubObject(id))]

(***************************************************************************)
(* Keepalive configuration: the durations are counted in seconds.          *)
(***************************************************************************)
Timeout == 10
DefaultPongTimeout == Timeout * 6
DefaultPingPeriod == (DefaultPongTimeout * 9) \div 10
ErrIllegalPingTimeout == "ErrIllegalPingTimeout"
Durations == {-1, 0, 1, 10, 53, 54, 55, 59, 60, 61, 600}

\* A SetPingPeriod that accepts a period equal to the pong timeout.
SetPingPeriodResultUpTo(pp, pt, n) ==
    IF n > pt
    THEN [err |-> ErrIllegalPingTimeout, pingPeriod |-> pp, pongTimeout |-> pt]
    ELSE [err |-> Nil, pingPeriod |-> n, pongTimeout |-> pt]

\* SetPingPeriod: the error returned and the two package variables it leaves.
SetPingPeriodResult(pp, pt, n) ==
    IF n >= pt
    THEN [err |-> ErrIllegalPingTimeout, pingPeriod |-> pp, pongTimeout |-> pt]
    ELSE [err |-> Nil, pingPeriod |-> n, pongTimeout |-> pt]

\* SetPongTimeout
SetPongTimeoutResult(pp, pt, n) ==
    IF n <= pp
    THEN [err |-> ErrIllegalPingTimeout, pingPeriod |-> pp, pongTimeout |-> pt]
    ELSE [err |-> Nil, pingPeriod |-> pp, pongTimeout |-> n]

(***************************************************************************)
(* Events                                                                  *)
(***************************************************************************)
\* newEvent, and the Source Broadcast writes into it
newEvent(kind, data) ==
    [Kind |-> kind,
     Data |-> IF data # NilGetter THEN data.data ELSE Nil,
     Recipient |-> NilRef,
     Source |-> NilRef]

\* The pairs <<agent, handler>> of hub h registered for kind.
RegisteredOn(sub, h, kind) ==
    {p \in Clients \X Handlers :
        ClientHub[p[1]] = h /\ p[2] \in AgentHandlers(sub, p[1], kind)}

\* Hub.Broadcast, up to its first send: the queues it will send to.
\* A hub that keeps one subscription table for every hub of the process.
BroadcastTargetsAnyHub(hub, h, eventKind) ==
    UNION {IF eventKind \in DOMAIN hub[g] THEN hub[g][eventKind] ELSE {} : g \in Hubs}

BroadcastTargets(hub, h, eventKind) ==
    IF eventKind \in DOMAIN hub[h] THEN hub[h][eventKind] ELSE {}

BroadcastWarnings(hub, h, eventKind) ==
    IF eventKind \in DOMAIN hub[h] THEN <<>> ELSE <<ErrNoListeners>>

\* The *Event a Broadcast sends to subscriber a: newEvent is called inside the
\* range over the subscribers, so every send has an object of its own.
\* A Broadcast that makes one object and sends it to every subscriber.
EventPtrShared(id, a) == <<id, "every subscriber">>

EventPtr(id, a) == <<id, a>>

\* The event a Broadcast sends to one subscriber.
BroadcastEvent(id) ==
    [newEvent(bcasts[id].kind, bcasts[id].data) EXCEPT !.Source = bcasts[id].source]

\* EventAgent.listen: who is the recipient of an event this agent receives
ListenRecipient(a) == IF delegate[a] # NilRef THEN delegate[a] ELSE AgentRef(a)

\* EventAgent.listen: the handlers run for a received event
\* A dispatch that runs the handlers of every kind.
ListenHandlersAnyKind(sub, a, ev) ==
    UNION {{<<key, sub[a][k][key]>> : key \in DOMAIN sub[a][k]} : k \in DOMAIN sub[a]}

ListenHandlers(sub, a, ev) ==
    IF ev.Kind \in DOMAIN sub[a]
    THEN LET actions == sub[a][ev.Kind]
         IN  {<<key, actions[key]>> : key \in DOMAIN actions}
    ELSE {}

(***************************************************************************)
(* Initial state: two hubs made by NewHub, three clients made by           *)
(* Hub.NewClient (no delegate, no subscription, channel empty).            *)
(***************************************************************************)
Init ==
    /\ hubSubscriptions = [h \in Hubs |-> EmptyMap]
    /\ agentSubscriptions = [c \in Clients |-> EmptyMap]
    /\ ready = [c \in Clients |-> FALSE]
    /\ events = [c \in Clients |-> <<>>]
    /\ spawned = [c \in Clients |-> 0]
    /\ listening = [c \in Clients |-> 0]
    /\ delegate = [c \in Clients |-> NilRef]
    /\ messageSubscriptions = [c \in Clients |-> EmptyMap]
    /\ famEvents = [f \in Families |-> [subscribers |-> {}, subscriptions |-> EmptyMap]]
    /\ famMessages = [f \in Families |-> [subscribers |-> {}, subscriptions |-> EmptyMap]]
    /\ unsubscribed = {}
    /\ messageUnsubscribed = {}
    /\ messages = <<>>
    /\ responses = EmptyBag
    /\ hubs = EmptyMap
    /\ defaultHub = NoHub
    /\ hubInstances = <<>>
    /\ callers = [g \in Goroutines |-> "idle"]
    /\ hubCalls = <<>>
    /\ sendText = [c \in Clients |-> <<>>]
    /\ sendBinary = [c \in Clients |-> <<>>]
    /\ conn = [c \in Clients |-> Connected]
    /\ panic = Nil
    /\ reported = {}
    /\ attempts = <<>>
    /\ inflight = [c \in Clients |-> {}]
    /\ log = <<>>
    /\ parsed = <<>>
    /\ heap = EmptyMap
    /\ calling = [c \in Clients |-> NotSending]
    /\ running = [t \in Threads |-> Idle]
    /\ setup = [c \in Connections |-> NotConnected]
    /\ pingPeriod = DefaultPingPeriod
    /\ pongTimeout = DefaultPongTimeout
    /\ lastConfig = [op |-> "init", n |-> 0, err |-> Nil,
                     pingPeriod |-> DefaultPingPeriod, pongTimeout |-> DefaultPongTimeout]
    /\ sending = NotSending
    /\ bcasts = <<>>
    /\ invocations = EmptyBag
    /\ last = [call |-> [op |-> "init"], warns |-> <<>>, repeat |-> FALSE]
    /\ steps = 0

\* The application makes its API calls one after the other: the next call
\* begins when Hub.Broadcast has returned.
CanCall == sending = NotSending

\* A registration that was removed is no longer live in the history.
StillLive(sub) ==
    [i \in DOMAIN bcasts |->
        [bcasts[i] EXCEPT !.live = {p \in @ : p[2] \in AgentHandlers(sub, p[1], bcasts[i].kind)}]]

\* The record of an API call: the call, the warnings it raised, and whether the
\* call before it was the same call with the same arguments.
Called(call, warns) == [call |-> call, warns |-> warns, repeat |-> (call = last.call)]

\* Write a store back.
Commit(S, call) ==
    /\ hubSubscriptions' = S.hub
    /\ agentSubscriptions' = S.sub
    /\ spawned' = S.spawned
    /\ messageSubscriptions' = S.msub
    /\ famEvents' = S.fe
    /\ famMessages' = S.fm
    /\ unsubscribed' = S.off
    /\ messageUnsubscribed' = S.moff
    /\ bcasts' = StillLive(S.sub)
    /\ last' = Called(call, S.warns)
    /\ steps' = steps + 1

Subscribe(a, kind, do) ==
    /\ CanCall
    /\ Commit(AgentSubscribe(Store, a, kind, do),
              [op |-> "Subscribe", a |-> a, kind |-> kind, h |-> do])
    /\ UNCHANGED <<ready, events, listening, delegate, sending, invocations, otherVars>>

Unsubscribe(a, kind, do) ==
    /\ CanCall
    /\ Commit(AgentUnsubscribe(Store, a, kind, do),
              [op |-> "Unsubscribe", a |-> a, kind |-> kind, h |-> do])
    /\ UNCHANGED <<ready, events, listening, delegate, sending, invocations, otherVars>>

\* The application sets the public field Delegate of a client's event agent.
SetDelegate(a) ==
    /\ CanCall
    /\ delegate[a] = NilRef
    /\ delegate' = [delegate EXCEPT ![a] = ClientRef(a)]
    /\ last' = Called([op |-> "SetDelegate", a |-> a], <<>>)
    /\ steps' = steps + 1
    /\ UNCHANGED <<hubSubscriptions, agentSubscriptions, ready, events, spawned,
                   listening, sending, bcasts, invocations, familyVars, offVars, otherVars>>

\* Hub.Broadcast is called: the range over the subscribers begins.
HubBroadcast(h, eventKind, data, source) ==
    /\ CanCall
    /\ LET id == Len(bcasts) + 1
           targets == BroadcastTargets(hubSubscriptions, h, eventKind)
           regs == RegisteredOn(agentSubscriptions, h, eventKind)
       IN  /\ bcasts' = Append(bcasts,
                   [hub |-> h, kind |-> eventKind, data |-> data, source |-> source,
                    regs |-> regs, live |-> regs, targets |-> targets])
           /\ sending' = IF targets = {} THEN NotSending ELSE [id |-> id, todo |-> targets]
           /\ last' = Called([op |-> "Broadcast", id |-> id],
                              BroadcastWarnings(hubSubscriptions, h, eventKind))
    /\ steps' = steps + 1
    /\ UNCHANGED <<hubSubscriptions, agentSubscriptions, ready, events, spawned,
                   listening, delegate, invocations, familyVars, offVars, otherVars>>

\* The broadcasts of a scenario are counted by MaxBroadcasts.
Broadcast(h, eventKind, data, source) ==
    /\ Len(bcasts) < MaxBroadcasts
    /\ HubBroadcast(h, eventKind, data, source)

\* A send on the buffered channel of an agent can proceed while the buffer
\* has room; otherwise the sender waits.
\* A channel that takes every send.
HasRoomAlways(q) == TRUE

HasRoom(q) == Len(q) < EventQueueCap

\* Hub.Broadcast: `sub <- e` for one subscriber; blocks while its channel is full.
BroadcastSend(a) ==
    /\ sending # NotSending
    /\ a \in sending.todo
    /\ HasRoom(events[a])
    /\ LET e == EventPtr(sending.id, a)
       IN  /\ heap' = MapPut(heap, e, BroadcastEvent(sending.id))
           /\ events' = [events EXCEPT ![a] = Append(@, [id |-> sending.id, ptr |-> e])]
    /\ sending' = IF sending.todo = {a} THEN NotSending
                  ELSE [sending EXCEPT !.todo = @ \ {a}]
    /\ UNCHANGED <<hubSubscriptions, agentSubscriptions, ready, spawned, listening,
                   delegate, bcasts, invocations, last, steps, familyVars, offVars,
                   messageVars, registryVars, configVars, sendVars, connVars, dispatchVars,
                   parsed, calling, running, setup>>

\* EventAgent.listen begins: agent.ready = true.  The field is written here
\* and read by Subscribe on another goroutine with no synchronisation, so the
\* caller of Subscribe may see the write or still see the old value.
ListenStart(a) ==
    /\ spawned[a] > 0
    /\ spawned' = [spawned EXCEPT ![a] = @ - 1]
    /\ listening' = [listening EXCEPT ![a] = @ + 1]
    /\ \E seen \in {TRUE, ready[a]} : ready' = [ready EXCEPT ![a] = seen]
    /\ UNCHANGED <<hubSubscriptions, agentSubscriptions, events, delegate, sending,
                   bcasts, invocations, last, steps, familyVars, offVars, otherVars>>

\* EventAgent.listen: one round of the loop, receive an event and run its handlers.
Listen(a) ==
    /\ listening[a] > 0
    /\ events[a] # <<>>
    /\ LET item == Head(events[a])
           ev == [heap[item.ptr] EXCEPT !.Recipient = ListenRecipient(a)]
           run == ListenHandlers(agentSubscriptions, a, ev)
           calls == [r \in {[id |-> item.id, agent |-> a, handler |-> e[2], event |-> ev]
                            : e \in run}
                     |-> Cardinality({e \in run : e[2] = r.handler})]
       IN  /\ heap' = [heap EXCEPT ![item.ptr] = ev]
           /\ invocations' = invocations (+) calls
    /\ events' = [events EXCEPT ![a] = Tail(@)]
    /\ UNCHANGED <<hubSubscriptions, agentSubscriptions, ready, spawned, listening,
                   delegate, sending, bcasts, last, steps, familyVars, offVars,
                   messageVars, registryVars, configVars, sendVars, connVars, dispatchVars,
                   parsed, calling, running, setup>>

\* EventAgent.listen, step by step.  A listen goroutine that is not running
\* handlers receives the next event of the channel and reads the handler set
\* of its kind.
ListenTake(a) ==
    /\ listening[a] > Cardinality(inflight[a])
    /\ events[a] # <<>>
    /\ LET item == Head(events[a])
           ev == [heap[item.ptr] EXCEPT !.Recipient = ListenRecipient(a)]
           run == ListenHandlers(agentSubscriptions, a, ev)
       IN  /\ heap' = [heap EXCEPT ![item.ptr] = ev]
           /\ inflight' = [inflight EXCEPT ![a] =
                              IF run = {} THEN @
                              ELSE @ \cup {[id |-> item.id, ptr |-> item.ptr, left |-> run]}]
    /\ events' = [events EXCEPT ![a] = Tail(@)]
    /\ UNCHANGED <<hubSubscriptions, agentSubscriptions, ready, spawned, listening,
                   delegate, sending, bcasts, invocations, last, steps, familyVars, offVars,
                   log, messageVars, registryVars, configVars, sendVars, connVars,
                   parsed, calling, running, setup>>

\* The range over the handler map calls the next handler, in whatever order
\* the map yields its entries, with the pointer to the event it received.
ListenRun(a) ==
    /\ \E d \in inflight[a] : \E e \in d.left :
          /\ log' = Append(log, [agent |-> a, id |-> d.id, handler |-> e[2],
                                  event |-> heap[d.ptr]])
          /\ invocations' = invocations (+)
                 SetToBag({[id |-> d.id, agent |-> a, handler |-> e[2], event |-> heap[d.ptr]]})
          /\ inflight' = [inflight EXCEPT ![a] =
                             (@ \ {d}) \cup (IF d.left = {e} THEN {}
                                             ELSE {[d EXCEPT !.left = @ \ {e}]})]
    /\ UNCHANGED <<hubSubscriptions, agentSubscriptions, ready, events, spawned, listening,
                   delegate, sending, bcasts, last, steps, familyVars, offVars,
                   messageVars, registryVars, configVars, sendVars, connVars, taskVars>>

\* The handlers of the application that call Hub.Broadcast themselves: fn2
\* triggers the kind of the event it was given again, on the hub of the agent
\* it runs on, with no data and the recipient as source.
Rebroadcasting == {[code |-> "fn2", env |-> "x"]}

\* The range over the handler map calls a handler that calls Hub.Broadcast:
\* the Broadcast begins on the listen goroutine.
HandlerBroadcast(a) ==
    /\ calling[a] = NotSending
    /\ \E d \in inflight[a] : \E e \in d.left :
          /\ e[2] \in Rebroadcasting
          /\ LET ev == heap[d.ptr]
                 id == Len(bcasts) + 1
                 targets == BroadcastTargets(hubSubscriptions, ClientHub[a], ev.Kind)
                 regs == RegisteredOn(agentSubscriptions, ClientHub[a], ev.Kind)
                 rest == [d EXCEPT !.left = @ \ {e}]
             IN  /\ log' = Append(log, [agent |-> a, id |-> d.id, handler |-> e[2],
                                         event |-> ev])
                 /\ invocations' = invocations (+)
                        SetToBag({[id |-> d.id, agent |-> a, handler |-> e[2], event |-> ev]})
                 /\ bcasts' = Append(bcasts,
                        [hub |-> ClientHub[a], kind |-> ev.Kind, data |-> NilGetter,
                         source |-> ev.Recipient, regs |-> regs, live |-> regs,
                         targets |-> targets])
                 /\ calling' = [calling EXCEPT ![a] =
                                   IF targets = {} THEN NotSending
                                   ELSE [id |-> id, todo |-> targets]]
                 /\ inflight' = [inflight EXCEPT ![a] =
                                    (@ \ {d}) \cup (IF targets = {} /\ rest.left = {}
                                                    THEN {} ELSE {rest})]
    /\ UNCHANGED <<hubSubscriptions, agentSubscriptions, ready, events, spawned, listening,
                   delegate, sending, last, steps, familyVars, offVars,
                   messageVars, registryVars, configVars, sendVars, connVars,
                   parsed, heap, running, setup>>

\* The Broadcast of the handler sends to subscriber b, and waits while b's
\* channel is full; after the last send the handler returns, and the dispatch
\* of the event is over when no handler is left.
HandlerSend(a, b) ==
    /\ calling[a] # NotSending
    /\ b \in calling[a].todo
    /\ HasRoom(events[b])
    /\ LET e == EventPtr(calling[a].id, b)
           returns == calling[a].todo = {b}
       IN  /\ heap' = MapPut(heap, e, BroadcastEvent(calling[a].id))
           /\ events' = [events EXCEPT ![b] = Append(@, [id |-> calling[a].id, ptr |-> e])]
           /\ calling' = [calling EXCEPT ![a] =
                             IF returns THEN NotSending ELSE [@ EXCEPT !.todo = @ \ {b}]]
           /\ inflight' = [inflight EXCEPT ![a] =
                              IF returns THEN {d \in @ : d.left # {}} ELSE @]
    /\ UNCHANGED <<hubSubscriptions, agentSubscriptions, ready, spawned, listening,
                   delegate, sending, bcasts, invocations, last, steps, familyVars, offVars,
                   log, messageVars, registryVars, configVars, sendVars, connVars,
                   parsed, running, setup>>

(***************************************************************************)
(* Message agents: subscriptions made by the application and the dispatch  *)
(* of a received message to the handlers of its kind.                      *)
(***************************************************************************)
MessageOn(a, kind, do) ==
    /\ CanCall
    /\ Commit(MessageSubscribe(Store, a, kind, do),
              [op |-> "MessageOn", a |-> a, kind |-> kind, h |-> do])
    /\ UNCHANGED <<ready, events, listening, delegate, sending, invocations, otherVars>>

MessageOff(a, kind, do) ==
    /\ CanCall
    /\ Commit(MessageUnsubscribe(Store, a, kind, do),
              [op |-> "MessageOff", a |-> a, kind |-> kind, h |-> do])
    /\ UNCHANGED <<ready, events, listening, delegate, sending, invocations, otherVars>>

\* A message of this kind arrives on the agent's connection and is dispatched.
MessageRespond(a, kind) ==
    /\ Len(messages) < MaxMessages
    /\ LET id == Len(messages) + 1
           run == MessageHandlers(messageSubscriptions, a, kind)
       IN  /\ messages' = Append(messages, [agent |-> a, kind |-> kind])
           /\ responses' = responses (+)
                  [r \in {[id |-> id, agent |-> a, kind |-> kind, handler |-> h] : h \in run}
                   |-> 1]
    /\ UNCHANGED <<hubSubscriptions, agentSubscriptions, ready, events, spawned,
                   listening, delegate, sending, bcasts, invocations, last, steps,
                   familyVars, offVars, registryVars, configVars, sendVars,
                   connVars, dispatchVars, taskVars>>

(***************************************************************************)
(* Family calls                                                            *)
(***************************************************************************)
FamilyAdd(f, d) ==
    /\ CanCall
    /\ Commit(FamilyAddTo(Store, f, d), [op |-> "FamilyAdd", f |-> f, d |-> d])
    /\ UNCHANGED <<ready, events, listening, delegate, sending, invocations, otherVars>>

FamilyRemove(f, d) ==
    /\ CanCall
    /\ Commit(FamilyRemoveFrom(Store, f, d), [op |-> "FamilyRemove", f |-> f, d |-> d])
    /\ UNCHANGED <<ready, events, listening, delegate, sending, invocations, otherVars>>

Join(c, fs) ==
    /\ CanCall
    /\ LET res == JoinResult(Store, c, fs, Nil)
       IN  Commit(res.store, [op |-> "Join", c |-> c, families |-> fs, err |-> res.err])
    /\ UNCHANGED <<ready, events, listening, delegate, sending, invocations, otherVars>>

\* Thread t calls into family f and runs up to the point where another
\* thread's call can come in between.
FamilyEnter(t, op, f, arg) ==
    /\ CanCall
    /\ running[t] = Idle
    /\ LET r == [op |-> op, f |-> f, arg |-> arg, pc |-> "enter"]
           res == familyStep(Store, r)
       IN  /\ Commit(res.store, r)
           /\ running' = [running EXCEPT ![t] = res.next]
    /\ UNCHANGED <<ready, events, listening, delegate, sending, invocations,
                   messageVars, registryVars, configVars, sendVars, connVars, dispatchVars,
                   parsed, heap, calling, setup>>

\* Thread t runs the rest of its call and returns.
FamilyFinish(t) ==
    /\ running[t] # Idle
    /\ LET res == familyStep(Store, running[t])
       IN  /\ Commit(res.store, running[t])
           /\ running' = [running EXCEPT ![t] = res.next]
    /\ UNCHANGED <<ready, events, listening, delegate, sending, invocations,
                   messageVars, registryVars, configVars, sendVars, connVars, dispatchVars,
                   parsed, heap, calling, setup>>

FamilyEventsSubscribe(f, kind, do) ==
    /\ CanCall
    /\ Commit(EventSubscriberSubscribe(Store, f, kind, do),
              [op |-> "FamilyEventsSubscribe", f |-> f, kind |-> kind, h |-> do])
    /\ UNCHANGED <<ready, events, listening, delegate, sending, invocations, otherVars>>

FamilyEventsUnsubscribe(f, kind, do) ==
    /\ CanCall
    /\ Commit(EventSubscriberUnsubscribe(Store, f, kind, do),
              [op |-> "FamilyEventsUnsubscribe", f |-> f, kind |-> kind, h |-> do])
    /\ UNCHANGED <<ready, events, listening, delegate, sending, invocations, otherVars>>

FamilyMessagesSubscribe(f, kind, do) ==
    /\ CanCall
    /\ Commit(MessageSubscriberSubscribe(Store, f, kind, do),
              [op |-> "FamilyMessagesSubscribe", f |-> f, kind |-> kind, h |-> do])
    /\ UNCHANGED <<ready, events, listening, delegate, sending, invocations, otherVars>>

FamilyMessagesUnsubscribe(f, kind, do) ==
    /\ CanCall
    /\ Commit(MessageSubscriberUnsubscribe(Store, f, kind, do),
              [op |-> "FamilyMessagesUnsubscribe", f |-> f, kind |-> kind, h |-> do])
    /\ UNCHANGED <<ready, events, listening, delegate, sending, invocations, otherVars>>

(***************************************************************************)
(* The calls the application makes in the event-agent scenarios: c1        *)
(* subscribes and unsubscribes every handler under every kind, c2 and c3   *)
(* each subscribe one handler to k1; c2 triggers on hub hA, c3 on hub hB.  *)
(***************************************************************************)
H1x == [code |-> "fn1", env |-> "x"]
H1y == [code |-> "fn1", env |-> "y"]
H2x == [code |-> "fn2", env |-> "x"]
Payload == [isNil |-> FALSE, data |-> "payload"]

SubscribeCalls ==
    ({"c1"} \X Kinds \X Handlers) \cup {<<"c2", "k1", H2x>>, <<"c3", "k1", H1x>>}
UnsubscribeCalls == {"c1"} \X Kinds \X Handlers
TriggerCalls ==
    {<<"c2", "k1", Payload>>, <<"c2", "k2", NilGetter>>, <<"c3", "k1", Payload>>}

\* Client.Trigger(kind, data) is Hub.Broadcast(kind, data, c) on the client's hub.
Trigger(c, eventKind, data) == Broadcast(ClientHub[c], eventKind, data, ClientRef(c))

AgentNext ==
    \/ steps < MaxSteps /\ \E x \in SubscribeCalls : Subscribe(x[1], x[2], x[3])
    \/ steps < MaxSteps /\ \E x \in UnsubscribeCalls : Unsubscribe(x[1], x[2], x[3])
    \/ steps < MaxSteps /\ SetDelegate("c1")
    \/ steps < MaxSteps /\ \E x \in TriggerCalls : Trigger(x[1], x[2], x[3])
    \/ \E a \in Clients : BroadcastSend(a)
    \/ \E a \in Clients : ListenStart(a)
    \/ \E a \in Clients : Listen(a)

SpecAgents == Init /\ [][AgentNext]_vars

(***************************************************************************)
(* The calls of the unsubscribe scenarios: c1 registers and removes        *)
(* handlers for events and messages of kind k1, c2 triggers k1, and        *)
(* messages of kind k1 arrive for c1.                                      *)
(***************************************************************************)
OffSubscribeCalls == {<<"c1", "k1", H1x>>, <<"c1", "k1", H2x>>}
OffUnsubscribeCalls == {<<"c1", "k1", H1x>>}
OffMessageOnCalls == {<<"c1", "k1", H1x>>}
OffMessageOffCalls == {<<"c1", "k1", H1x>>}
OffTriggerCalls == {<<"c2", "k1", Payload>>}
ReceiveCalls == {<<"c1", "k1">>}

OffNext ==
    \/ steps < MaxOffSteps /\ \E x \in OffSubscribeCalls : Subscribe(x[1], x[2], x[3])
    \/ steps < MaxOffSteps /\ \E x \in OffUnsubscribeCalls : Unsubscribe(x[1], x[2], x[3])
    \/ steps < MaxOffSteps /\ \E x \in OffMessageOnCalls : MessageOn(x[1], x[2], x[3])
    \/ steps < MaxOffSteps /\ \E x \in OffMessageOffCalls : MessageOff(x[1], x[2], x[3])
    \/ steps < MaxOffSteps /\ \E x \in OffTriggerCalls : Trigger(x[1], x[2], x[3])
    \/ \E x \in ReceiveCalls : MessageRespond(x[1], x[2])
    \/ \E a \in Clients : BroadcastSend(a)
    \/ \E a \in Clients : ListenStart(a)
    \/ \E a \in Clients : Listen(a)

SpecOff == Init /\ [][OffNext]_vars

(***************************************************************************)
(* The calls the application makes in the family scenarios: c1 joins and   *)
(* leaves both families, c2 stays in f2; the families register the same    *)
(* handler, different handlers and closures of one function literal; c1    *)
(* also registers a handler of its own.                                    *)
(***************************************************************************)
FamilyAddCalls == {<<"f1", "c1">>, <<"f2", "c1">>, <<"f2", "c2">>}
FamilyRemoveCalls == {<<"f1", "c1">>, <<"f2", "c1">>}
FamilySubscribeCalls ==
    {<<"f1", "k1", H1x>>, <<"f2", "k1", H1x>>, <<"f2", "k1", H2x>>,
     <<"f2", "k2", H2x>>, <<"f1", "k1", H1y>>}
FamilyUnsubscribeCalls == {<<"f1", "k1", H1x>>, <<"f2", "k1", H1x>>}
FamilyMessageCalls == {<<"f1", "k1", H1x>>}
MemberSubscribeCalls == {<<"c1", "k1", H1y>>}
FamilyTriggerCalls == {<<"c2", "k1", NilGetter>>}

FamilyNext ==
    \/ steps < MaxFamilySteps /\ \E x \in FamilyAddCalls : FamilyAdd(x[1], x[2])
    \/ steps < MaxFamilySteps /\ \E x \in FamilyRemoveCalls : FamilyRemove(x[1], x[2])
    \/ steps < MaxFamilySteps
         /\ \E x \in FamilySubscribeCalls : FamilyEventsSubscribe(x[1], x[2], x[3])
    \/ steps < MaxFamilySteps
         /\ \E x \in FamilyUnsubscribeCalls : FamilyEventsUnsubscribe(x[1], x[2], x[3])
    \/ steps < MaxFamilySteps
         /\ \E x \in FamilyMessageCalls : FamilyMessagesSubscribe(x[1], x[2], x[3])
    \/ steps < MaxFamilySteps
         /\ \E x \in FamilyMessageCalls : FamilyMessagesUnsubscribe(x[1], x[2], x[3])
    \/ steps < MaxFamilySteps
         /\ \E x \in MemberSubscribeCalls : Subscribe(x[1], x[2], x[3])
    \/ steps < MaxFamilySteps /\ \E x \in FamilyTriggerCalls : Trigger(x[1], x[2], x[3])
    \/ \E a \in Clients : BroadcastSend(a)
    \/ \E a \in Clients : ListenStart(a)
    \/ \E a \in Clients : Listen(a)

SpecFamily == Init /\ [][FamilyNext]_vars

(***************************************************************************)
(* Two threads in one family: t1 adds and removes c1, t2 registers and     *)
(* removes the handler H1x for k1.                                         *)
(***************************************************************************)
CascadeNext ==
    \/ steps < MaxCascadeSteps /\ FamilyEnter("t1", "Add", "f1", <<"c1">>)
    \/ steps < MaxCascadeSteps /\ FamilyEnter("t1", "Remove", "f1", <<"c1">>)
    \/ steps < MaxCascadeSteps /\ FamilyEnter("t2", "Subscribe", "f1", <<"k1", H1x>>)
    \/ steps < MaxCascadeSteps /\ FamilyEnter("t2", "Unsubscribe", "f1", <<"k1", H1x>>)
    \/ \E t \in Threads : FamilyFinish(t)

SpecCascade == Init /\ [][CascadeNext]_vars

(***************************************************************************)
(* The dispatch scenarios: c1 registers H1x for k1 and, once that is done, *)
(* H2x for k1, so that H1x is registered first; c2 triggers k1.            *)
(***************************************************************************)
ListenNext ==
    \/ steps < MaxListenSteps /\ Subscribe("c1", "k1", H1x)
    \/ steps < MaxListenSteps
         /\ H1x \in AgentHandlers(agentSubscriptions, "c1", "k1")
         /\ Subscribe("c1", "k1", H2x)
    \/ steps < MaxListenSteps /\ Trigger("c2", "k1", Payload)
    \/ \E a \in Clients : BroadcastSend(a)
    \/ \E a \in Clients : ListenStart(a)
    \/ \E a \in Clients : ListenTake(a)
    \/ \E a \in Clients : ListenRun(a)

SpecListen == Init /\ [][ListenNext]_vars

\* The store of Init, and the store after c1.Subscribe(k1, do) on it.
FreshStore ==
    [hub |-> [h \in Hubs |-> EmptyMap], sub |-> [c \in Clients |-> EmptyMap],
     ready |-> [c \in Clients |-> FALSE], spawned |-> [c \in Clients |-> 0],
     msub |-> [c \in Clients |-> EmptyMap],
     fe |-> [f \in Families |-> [subscribers |-> {}, subscriptions |-> EmptyMap]],
     fm |-> [f \in Families |-> [subscribers |-> {}, subscriptions |-> EmptyMap]],
     off |-> {}, moff |-> {}, warns |-> <<>>]

\* The number of events waiting in c1's queue in the backlog scenarios: one
\* short of the capacity of the queue.
Backlog == EventQueueCap - 1

\* The record Hub.Broadcast leaves of a broadcast of k1 by c2 that finds c1
\* subscribed with handler do.
BacklogBroadcast(do) ==
    [hub |-> "hA", kind |-> "k1", data |-> Payload, source |-> ClientRef("c2"),
     regs |-> {<<"c1", do>>}, live |-> {<<"c1", do>>}, targets |-> {"c1"}]

\* The state the program is in after c1.Subscribe(k1, do) and Backlog
\* broadcasts of k1 by c2, when the listen goroutine that Subscribe started
\* has not run yet and every event is still in c1's queue.
InitWithBacklog(do) ==
    LET S == AgentSubscribe(FreshStore, "c1", "k1", do)
        ev == [newEvent("k1", Payload) EXCEPT !.Source = ClientRef("c2")]
    IN  /\ hubSubscriptions = S.hub
        /\ agentSubscriptions = S.sub
        /\ ready = S.ready
        /\ spawned = S.spawned
        /\ events = [c \in Clients |->
                        IF c = "c1"
                        THEN [i \in 1..Backlog |-> [id |-> i, ptr |-> EventPtr(i, "c1")]]
                        ELSE <<>>]
        /\ heap = [e \in {EventPtr(i, "c1") : i \in 1..Backlog} |-> ev]
        /\ bcasts = [i \in 1..Backlog |-> BacklogBroadcast(do)]
        /\ last = [call |-> [op |-> "Broadcast", id |-> Backlog], warns |-> <<>>,
                   repeat |-> FALSE]
        /\ steps = Backlog + 1
        /\ listening = [c \in Clients |-> 0]
        /\ delegate = [c \in Clients |-> NilRef]
        /\ messageSubscriptions = S.msub
        /\ famEvents = S.fe
        /\ famMessages = S.fm
        /\ unsubscribed = S.off
        /\ messageUnsubscribed = S.moff
        /\ messages = <<>>
        /\ responses = EmptyBag
        /\ hubs = EmptyMap
        /\ defaultHub = NoHub
        /\ hubInstances = <<>>
        /\ callers = [g \in Goroutines |-> "idle"]
        /\ hubCalls = <<>>
        /\ sendText = [c \in Clients |-> <<>>]
        /\ sendBinary = [c \in Clients |-> <<>>]
        /\ conn = [c \in Clients |-> Connected]
        /\ panic = Nil
        /\ reported = {}
        /\ attempts = <<>>
        /\ inflight = [c \in Clients |-> {}]
        /\ log = <<>>
        /\ parsed = <<>>
        /\ calling = [c \in Clients |-> NotSending]
        /\ running = [t \in Threads |-> Idle]
        /\ setup = [c \in Connections |-> NotConnected]
        /\ pingPeriod = DefaultPingPeriod
        /\ pongTimeout = DefaultPongTimeout
        /\ lastConfig = [op |-> "init", n |-> 0, err |-> Nil,
                         pingPeriod |-> DefaultPingPeriod, pongTimeout |-> DefaultPongTimeout]
        /\ sending = NotSending
        /\ invocations = EmptyBag

(***************************************************************************)
(* A slow consumer: c1 has the handler H1x for k1 and a backlog of events  *)
(* of k1 in its queue, and c2 goes on triggering k1.  The scheduler runs   *)
(* every goroutine that can take a step.                                   *)
(***************************************************************************)
InitBacklog == InitWithBacklog(H1x)

BacklogNext ==
    \/ Len(bcasts) < Backlog + MaxOverflow
         /\ HubBroadcast("hA", "k1", Payload, ClientRef("c2"))
    \/ \E a \in Clients : BroadcastSend(a)
    \/ \E a \in Clients : ListenStart(a)
    \/ \E a \in Clients : Listen(a)

BacklogFairness ==
    \A a \in Clients :
        WF_vars(BroadcastSend(a)) /\ WF_vars(ListenStart(a)) /\ WF_vars(Listen(a))

SpecBacklog == InitBacklog /\ [][BacklogNext]_vars /\ BacklogFairness

(***************************************************************************)
(* The same backlog when the handler of c1 for k1 is H2x, which triggers   *)
(* k1 again from inside the dispatch.                                      *)
(***************************************************************************)
InitReentrant == InitWithBacklog(H2x)

ReentrantNext ==
    \/ Len(bcasts) < Backlog + MaxReentrant
         /\ HubBroadcast("hA", "k1", Payload, ClientRef("c2"))
    \/ \E a \in Clients : BroadcastSend(a)
    \/ \E a \in Clients : ListenStart(a)
    \/ \E a \in Clients : ListenTake(a)
    \/ Len(bcasts) < Backlog + MaxReentrant /\ \E a \in Clients : HandlerBroadcast(a)
    \/ \E a, b \in Clients : HandlerSend(a, b)

SpecReentrant == InitReentrant /\ [][ReentrantNext]_vars

(***************************************************************************)
(* Two agents of one hub, c1 and c2, register a handler for k1 and dispatch *)
(* the same broadcasts at the same time; c1 may have its client as         *)
(* delegate.                                                               *)
(***************************************************************************)
ShareNext ==
    \/ steps < MaxShareSteps /\ \E a \in {"c1", "c2"} : Subscribe(a, "k1", H1x)
    \/ steps < MaxShareSteps /\ SetDelegate("c1")
    \/ steps < MaxShareSteps /\ Trigger("c2", "k1", Payload)
    \/ \E a \in Clients : BroadcastSend(a)
    \/ \E a \in Clients : ListenStart(a)
    \/ \E a \in Clients : ListenTake(a)
    \/ \E a \in Clients : ListenRun(a)

SpecShare == Init /\ [][ShareNext]_vars

(***************************************************************************)
(* The life of one event agent: c1 registers and removes its only handler, *)
(* c2 triggers the kind.  The scheduler runs every goroutine that can take *)
(* a step; the calls of the application are not fair.                      *)
(***************************************************************************)
LifeNext ==
    \/ steps < MaxLifeSteps /\ Subscribe("c1", "k1", H1x)
    \/ steps < MaxLifeSteps /\ Unsubscribe("c1", "k1", H1x)
    \/ steps < MaxLifeSteps /\ Trigger("c2", "k1", Payload)
    \/ \E a \in Clients : BroadcastSend(a)
    \/ \E a \in Clients : ListenStart(a)
    \/ \E a \in Clients : Listen(a)

LifeFairness ==
    \A a \in Clients :
        WF_vars(BroadcastSend(a)) /\ WF_vars(ListenStart(a)) /\ WF_vars(Listen(a))

SpecLife == Init /\ [][LifeNext]_vars /\ LifeFairness

(***************************************************************************)
(* The calls of the join scenarios: c1 (hub hA) and c3 (hub hB) join lists *)
(* of up to two families, of which f1 is on hA and f2 on hB, and leave     *)
(* them; the families register handlers.                                   *)
(***************************************************************************)
Joiners == {"c1", "c3"}
FamilyLists ==
    {<<>>} \cup {<<f>> : f \in Families} \cup {<<f, g>> : f \in Families, g \in Families}
LeaveCalls == {<<f, c>> : f \in Families, c \in Joiners}
JoinSubscribeCalls == {<<"f1", "k1", H1x>>, <<"f2", "k1", H2x>>}

JoinNext ==
    \/ steps < MaxJoinSteps /\ \E c \in Joiners, fs \in FamilyLists : Join(c, fs)
    \/ steps < MaxJoinSteps /\ \E x \in LeaveCalls : FamilyRemove(x[1], x[2])
    \/ steps < MaxJoinSteps
         /\ \E x \in JoinSubscribeCalls : FamilyEventsSubscribe(x[1], x[2], x[3])

SpecJoin == Init /\ [][JoinNext]_vars
(***************************************************************************)
(* Registry calls                                                          *)
(***************************************************************************)
CanAllocate == Len(hubInstances) < MaxHubs /\ Len(hubCalls) < MaxHubCalls

NewHub(id) ==
    /\ CanAllocate
    /\ LET res == NewHubResult(hubs, hubInstances, id)
       IN  /\ hubs' = res.hubs
           /\ hubInstances' = res.objs
           /\ hubCalls' = Append(hubCalls, [op |-> "NewHub", id |-> id,
                                           ret |-> res.ret, err |-> res.err])
    /\ UNCHANGED <<defaultHub, callers, pubsubVars, messageVars, configVars, sendVars, connVars, dispatchVars, taskVars>>

\* DefaultHub: `if defaultHub == nil`
DefaultHubTest(g) ==
    /\ CanAllocate
    /\ callers[g] = "idle"
    /\ callers' = [callers EXCEPT ![g] = IF defaultHub = NoHub THEN "create" ELSE "return"]
    /\ UNCHANGED <<hubs, defaultHub, hubInstances, hubCalls, pubsubVars, messageVars, configVars, sendVars, connVars, dispatchVars, taskVars>>

\* DefaultHub: `defaultHub = &Hub{defaultHubID, make(...)}`
DefaultHubCreate(g) ==
    /\ callers[g] = "create"
    /\ hubInstances' = Append(hubInstances, NewHubObject(defaultHubID))
    /\ defaultHub' = Len(hubInstances) + 1
    /\ callers' = [callers EXCEPT ![g] = "return"]
    /\ UNCHANGED <<hubs, hubCalls, pubsubVars, messageVars, configVars, sendVars, connVars, dispatchVars, taskVars>>

\* DefaultHub: `return defaultHub`
DefaultHubReturn(g) ==
    /\ callers[g] = "return"
    /\ hubCalls' = Append(hubCalls, [op |-> "DefaultHub", id |-> defaultHubID,
                                    ret |-> defaultHub, err |-> Nil])
    /\ callers' = [callers EXCEPT ![g] = "idle"]
    /\ UNCHANGED <<hubs, defaultHub, hubInstances, pubsubVars, messageVars, configVars, sendVars, connVars, dispatchVars, taskVars>>

\* Hub.subscribe on a hub object: a queue is subscribed to a kind.
HubObjectSubscribe(i, kind, c) ==
    /\ i \in DOMAIN hubInstances
    /\ kind \notin DOMAIN hubInstances[i].subscriptions
    /\ hubInstances' = [hubInstances EXCEPT ![i].subscriptions = HubSubscribe(@, kind, c)]
    /\ UNCHANGED <<hubs, defaultHub, callers, hubCalls, pubsubVars, messageVars, configVars, sendVars, connVars, dispatchVars, taskVars>>

RegistryNext ==
    \/ \E id \in HubIDs : NewHub(id)
    \/ \E g \in Goroutines : DefaultHubTest(g)
    \/ \E g \in Goroutines : DefaultHubCreate(g)
    \/ \E g \in Goroutines : DefaultHubReturn(g)
    \/ \E i \in 1..MaxHubs : HubObjectSubscribe(i, "k1", "c1")

SpecRegistry == Init /\ [][RegistryNext]_vars

(***************************************************************************)
(* Configuration calls                                                     *)
(***************************************************************************)
SetPingPeriod(n) ==
    /\ LET res == SetPingPeriodResult(pingPeriod, pongTimeout, n)
       IN  /\ pingPeriod' = res.pingPeriod
           /\ pongTimeout' = res.pongTimeout
           /\ lastConfig' = [op |-> "SetPingPeriod", n |-> n, err |-> res.err,
                             pingPeriod |-> pingPeriod, pongTimeout |-> pongTimeout]
    /\ UNCHANGED <<pubsubVars, messageVars, registryVars, sendVars, connVars, dispatchVars, taskVars>>

SetPongTimeout(n) ==
    /\ LET res == SetPongTimeoutResult(pingPeriod, pongTimeout, n)
       IN  /\ pingPeriod' = res.pingPeriod
           /\ pongTimeout' = res.pongTimeout
           /\ lastConfig' = [op |-> "SetPongTimeout", n |-> n, err |-> res.err,
                             pingPeriod |-> pingPeriod, pongTimeout |-> pongTimeout]
    /\ UNCHANGED <<pubsubVars, messageVars, registryVars, sendVars, connVars, dispatchVars, taskVars>>

ConfigNext ==
    \/ \E n \in Durations : SetPingPeriod(n)
    \/ \E n \in Durations : SetPongTimeout(n)

SpecConfig == Init /\ [][ConfigNext]_vars

(***************************************************************************)
(* Outbound pushes                                                         *)
(***************************************************************************)
\* Family.PushMessage; a send on a full channel blocks the caller.
FamilyPushMessage(f, m, messageType) ==
    /\ CanCall
    /\ \A d \in FamilyPushTargets(Store, f) :
          /\ conn[d].textChan = "open" => Len(sendText[d]) < SendQueueCap
          /\ conn[d].binaryChan = "open" => Len(sendBinary[d]) < SendQueueCap
    /\ LET res == FamilyPushEach(Queues, FamilyPushTargets(Store, f), m, messageType)
       IN  /\ sendText' = res.text
           /\ sendBinary' = res.binary
           /\ panic' = res.panic
           /\ last' = Called([op |-> "FamilyPushMessage", f |-> f, m |-> m,
                              messageType |-> messageType], res.warns)
    /\ steps' = steps + 1
    /\ UNCHANGED <<hubSubscriptions, agentSubscriptions, ready, events, spawned,
                   listening, delegate, sending, bcasts, invocations,
                   familyVars, offVars, messageVars, registryVars, configVars,
                   conn, reported, attempts, dispatchVars, taskVars>>

\* startWriting, the sendText case: a message is written, or the channel is
\* found closed.
WriteText(c) ==
    /\ conn[c].writer.pc = "select"
    /\ \/ /\ sendText[c] # <<>>
          /\ sendText' = [sendText EXCEPT ![c] = Tail(@)]
          /\ \E ok \in WriteOutcomes(c) :
                /\ conn' = [conn EXCEPT ![c].writer = doWrite(@, ok)]
                /\ reported' = IF ok THEN reported ELSE reported \cup {<<c, ErrWrite>>}
       \/ /\ sendText[c] = <<>> /\ conn[c].textChan = "closed"
          /\ conn' = [conn EXCEPT ![c].writer = foundClosed(@)]
          /\ UNCHANGED <<sendText, reported>>
    /\ UNCHANGED <<sendBinary, panic, attempts, dispatchVars, taskVars, pubsubVars, messageVars,
                   registryVars, configVars>>

\* startWriting, the sendBinary case.
WriteBinary(c) ==
    /\ conn[c].writer.pc = "select"
    /\ \/ /\ sendBinary[c] # <<>>
          /\ sendBinary' = [sendBinary EXCEPT ![c] = Tail(@)]
          /\ \E ok \in WriteOutcomes(c) :
                /\ conn' = [conn EXCEPT ![c].writer = doWrite(@, ok)]
                /\ reported' = IF ok THEN reported ELSE reported \cup {<<c, ErrWrite>>}
       \/ /\ sendBinary[c] = <<>> /\ conn[c].binaryChan = "closed"
          /\ conn' = [conn EXCEPT ![c].writer = foundClosed(@)]
          /\ UNCHANGED <<sendBinary, reported>>
    /\ UNCHANGED <<sendText, panic, attempts, dispatchVars, taskVars, pubsubVars, messageVars,
                   registryVars, configVars>>

\* startWriting, the ticker case: a keepalive ping is written.
Ping(c) ==
    /\ conn[c].writer.pc = "select"
    /\ \E ok \in WriteOutcomes(c) : conn' = [conn EXCEPT ![c].writer = pingWrite(@, ok)]
    /\ UNCHANGED <<sendVars, panic, reported, attempts, dispatchVars, taskVars, pubsubVars,
                   messageVars, registryVars, configVars>>

\* startReading: ReadMessage returns a frame and receiveMessage handles it.
ReadFrame(c, frame) ==
    /\ conn[c].reader.pc = "read"
    /\ conn[c].transport = "open"
    /\ Len(messages) < MaxFrames
    /\ \E named \in BOOLEAN :
          LET res == receiveMessage(messageSubscriptions, c, frame, named)
              id  == Len(messages) + 1
          IN  /\ messages' = Append(messages, [agent |-> c, kind |-> frame.kind,
                                               type |-> frame.type])
              /\ reported' = reported \cup res.errs
              /\ panic' = res.panic
              /\ responses' = responses (+)
                     [r \in {[id |-> id, agent |-> c, kind |-> frame.kind, handler |-> h]
                             : h \in res.run} |-> 1]
    /\ UNCHANGED <<conn, attempts, sendVars, dispatchVars, taskVars, pubsubVars, registryVars,
                   configVars>>

\* startReading: ReadMessage returns an error: a failed or timed out read, a
\* closed transport, or a close frame of the peer.
ReadError(c, closeFrame) ==
    /\ conn[c].reader.pc = "read"
    /\ conn' = [conn EXCEPT ![c].reader = startReadingFailed(closeFrame)]
    /\ reported' = IF closeFrame THEN reported ELSE reported \cup {<<c, ErrRead>>}
    /\ UNCHANGED <<sendVars, panic, attempts, dispatchVars, taskVars, pubsubVars, messageVars,
                   registryVars, configVars>>

\* One step of the messageCleanup a task of the connection is in.  The error
\* of a close frame is reported when handleClose has returned.
Cleanup(c, task) ==
    /\ conn[c][task].pc \in CleanupPcs
    /\ ~CleanupBlocked(View(c), conn[c][task].pc)
    /\ LET res == messageCleanup(View(c), conn[c][task].pc)
           t   == [conn[c][task] EXCEPT !.pc = res.pc]
       IN  /\ conn' = [conn EXCEPT ![c] = [res.v.cn EXCEPT
                          ![task] = IF res.pc = "returned" THEN AfterCleanup(task, t) ELSE t]]
           /\ sendText' = [sendText EXCEPT ![c] = res.v.text]
           /\ sendBinary' = [sendBinary EXCEPT ![c] = res.v.binary]
           /\ panic' = res.v.panic
           /\ reported' = IF task = "reader" /\ res.pc = "returned" /\ t.todo = 2
                          THEN reported \cup {<<c, ErrRead>>} ELSE reported
    /\ UNCHANGED <<attempts, dispatchVars, taskVars, pubsubVars, messageVars, registryVars, configVars>>

(***************************************************************************)
(* The calls of the push scenarios: c1 and c2 join f1, c2 joins f2 and     *)
(* leaves either; text, binary and ping frames are pushed to the families. *)
(***************************************************************************)
PushAddCalls == {<<"f1", "c1">>, <<"f1", "c2">>, <<"f2", "c2">>}
PushRemoveCalls == {<<"f1", "c2">>, <<"f2", "c2">>}
PushCalls ==
    {<<"f1", "m1", TextMessage>>, <<"f1", "m2", BinaryMessage>>,
     <<"f2", "m1", TextMessage>>, <<"f1", "m1", PingMessage>>}

PushNext ==
    \/ steps < MaxPushSteps /\ \E x \in PushAddCalls : FamilyAdd(x[1], x[2])
    \/ steps < MaxPushSteps /\ \E x \in PushRemoveCalls : FamilyRemove(x[1], x[2])
    \/ steps < MaxPushSteps /\ \E x \in PushCalls : FamilyPushMessage(x[1], x[2], x[3])
    \/ \E c \in Clients : WriteText(c)
    \/ \E c \in Clients : WriteBinary(c)

SpecPush == Init /\ [][PushNext]_vars

(***************************************************************************)
(* The connection scenarios: c1 and c2 join f1 and the family is pushed    *)
(* text and binary payloads; both connections write, ping and clean up,    *)
(* and c1 reads frames, fails to read and receives a close frame.  A panic *)
(* ends the process.                                                       *)
(***************************************************************************)
ConnClients == {"c1", "c2"}

\* No panic has ended the process.
Alive == panic = Nil

ConnNext ==
    \/ Alive /\ steps < MaxConnSteps /\ \E c \in ConnClients : FamilyAdd("f1", c)
    \/ Alive /\ steps < MaxConnSteps
         /\ \E t \in {TextMessage, BinaryMessage} : FamilyPushMessage("f1", "m1", t)
    \/ Alive /\ \E frame \in Frames : ReadFrame("c1", frame)
    \/ Alive /\ \E closeFrame \in BOOLEAN : ReadError("c1", closeFrame)
    \/ Alive /\ \E c \in ConnClients, task \in {"reader", "writer"} : Cleanup(c, task)
    \/ Alive /\ \E c \in ConnClients : WriteText(c)
    \/ Alive /\ \E c \in ConnClients : WriteBinary(c)
    \/ Alive /\ \E c \in ConnClients : Ping(c)

SpecConn == Init /\ [][ConnNext]_vars

\* A request arrives and the application calls NewClient on a hub.
NewClientCall(h, upgraded) ==
    /\ Len(attempts) < MaxAttempts
    /\ attempts' = Append(attempts, [hub |-> h, upgraded |-> upgraded,
                                      res |-> HubNewClient(h, upgraded)])
    /\ UNCHANGED <<conn, panic, reported, sendVars, dispatchVars, taskVars, pubsubVars, messageVars,
                   registryVars, configVars>>

ConnectNext == \E h \in Hubs, upgraded \in BOOLEAN : NewClientCall(h, upgraded)

SpecConnect == Init /\ [][ConnectNext]_vars

\* The read task hands the payload of a text frame to the default parser.
ParseText(m) ==
    /\ panic = Nil
    /\ Len(parsed) < MaxParses
    /\ LET res == ParseJSONMessage(m)
       IN  /\ parsed' = Append(parsed, [payload |-> m, res |-> res])
           /\ panic' = res.panic
    /\ UNCHANGED <<conn, reported, attempts, heap, calling, running, setup, sendVars,
                   dispatchVars, pubsubVars, messageVars, registryVars, configVars>>

ParseNext == \E m \in Payloads : ParseText(m)

SpecParse == Init /\ [][ParseNext]_vars

\* The scheduler runs every goroutine that can take a step, and the ticker
\* of the write task keeps firing; what the peer and the application do is
\* not fair.
ConnFairness ==
    \A c \in ConnClients :
        /\ WF_vars(Cleanup(c, "reader"))
        /\ WF_vars(Cleanup(c, "writer"))
        /\ WF_vars(WriteText(c))
        /\ WF_vars(WriteBinary(c))
        /\ WF_vars(Ping(c))

SpecConnFair == Init /\ [][ConnNext]_vars /\ ConnFairness

(***************************************************************************)
(* What the history shows                                                  *)
(***************************************************************************)
Invoked == BagToSet(invocations)

RECURSIVE Copies(_)
Copies(rs) ==
    IF rs = {} THEN 0
    ELSE LET r == CHOOSE x \in rs : TRUE
         IN  CopiesIn(r, invocations) + Copies(rs \ {r})

\* How many times handler h ran on agent a for broadcast id.
Count(id, a, h) == Copies({r \in Invoked : r.id = id /\ r.agent = a /\ r.handler = h})

\* Broadcast id has still to reach the dispatch task of agent a.
Pending(id, a) ==
    \/ sending.id = id /\ a \in sending.todo
    \/ \E j \in 1..Len(events[a]) : events[a][j].id = id

\* data.Data(), nil when data is nil
DataOf(data) == IF data = NilGetter THEN Nil ELSE data.data

\* C1: every handler that was registered for kind k on an agent of hub H when
\* H.Broadcast(k, data, src) was called, and was not removed since, is invoked
\* at most once for that broadcast, and exactly once, with Data = data.Data(),
\* as soon as the broadcast has passed the agent's dispatch task.
C1_ExactlyOnce ==
    \A i \in DOMAIN bcasts : \A p \in bcasts[i].live :
        /\ Count(i, p[1], p[2]) <= 1
        /\ ~Pending(i, p[1]) =>
              /\ Count(i, p[1], p[2]) = 1
              /\ \A r \in Invoked :
                    (r.id = i /\ r.agent = p[1]) => r.event.Data = DataOf(bcasts[i].data)

\* C2: hub isolation: a hub's subscription sets hold queues of its own agents
\* only, a broadcast on hub A is only sent to, queued on and dispatched by
\* agents of A, so no handler of an agent of B runs for a broadcast on A.
C2_HubIsolation ==
    /\ \A h \in Hubs : \A k \in DOMAIN hubSubscriptions[h] :
          \A a \in hubSubscriptions[h][k] : ClientHub[a] = h
    /\ \A a \in sending.todo : ClientHub[a] = bcasts[sending.id].hub
    /\ \A a \in Clients : \A j \in 1..Len(events[a]) :
          bcasts[events[a][j].id].hub = ClientHub[a]
    /\ \A r \in Invoked : bcasts[r.id].hub = ClientHub[r.agent]

\* A broadcast of k1 on hub hA ran a handler on c1 while c3 of hub hB is
\* subscribed to k1 too.
C2_Witness ==
    /\ "k1" \in DOMAIN hubSubscriptions["hB"]
    /\ "c3" \in hubSubscriptions["hB"]["k1"]
    /\ \E r \in Invoked : r.agent = "c1" /\ bcasts[r.id].hub = "hA" /\ bcasts[r.id].kind = "k1"

\* C8: when Subscribe(k, h) is called twice in a row on one agent, the second
\* call raises the duplicate-handler warning and leaves exactly one
\* registration of h for k on the agent.
C8_Dedup ==
    (last.call.op = "Subscribe" /\ last.repeat) =>
        /\ last.warns = <<ErrDuplicateHandler>>
        /\ Registrations(agentSubscriptions[last.call.a][last.call.kind], last.call.h) = 1

\* C9: the event a handler of client c sees has Recipient = the Client c,
\* Source = the client that triggered it and Data = the published payload.
C9_RecipientIsClient ==
    \A r \in Invoked :
        /\ r.event.Recipient = ClientRef(r.agent)
        /\ r.event.Source = bcasts[r.id].source
        /\ r.event.Data = DataOf(bcasts[r.id].data)

\* C10: every handler invocation is of a handler the agent has registered,
\* at that moment, for the kind of the broadcast, on an agent the broadcast
\* found subscribed; so agents without a registration for k, handlers of other
\* kinds and broadcasts nobody is subscribed to invoke nothing.
C10_OnlyRegistered ==
    [][\A r \in BagToSet(invocations') :
          CopiesIn(r, invocations') > CopiesIn(r, invocations) =>
              /\ r.handler \in AgentHandlers(agentSubscriptions, r.agent, bcasts[r.id].kind)
              /\ r.agent \in bcasts[r.id].targets
              /\ r.event.Kind = bcasts[r.id].kind]_vars

\* A handler of c1 ran for a broadcast of k1 triggered by c2, which has no
\* handler at all, while c1 holds another handler under k2 only.
C10_Witness ==
    /\ \E r \in Invoked : r.agent = "c1" /\ bcasts[r.id].kind = "k1"
                          /\ bcasts[r.id].source = ClientRef("c2")
    /\ H2x \in AgentHandlers(agentSubscriptions, "c1", "k2")
    /\ H2x \notin AgentHandlers(agentSubscriptions, "c1", "k1")
    /\ DOMAIN agentSubscriptions["c2"] = {}
(***************************************************************************)
(* Families                                                                *)
(***************************************************************************)
\* The handlers a broadcast of kind k made now runs on client d: the hub sends
\* to the queues subscribed to k, the dispatch task runs the agent's set for k.
Dispatch(S, d, k) ==
    IF d \in BroadcastTargets(S.hub, ClientHub[d], k)
    THEN ListenHandlers(S.sub, d, newEvent(k, NilGetter))
    ELSE {}

DispatchCount(S, d, k, h) == Cardinality({e \in Dispatch(S, d, k) : e[2] = h})

\* The families that hold handler h for kind k and have d as a member.
FamiliesWith(d, k, h) ==
    {f \in Families : /\ d \in famEvents[f].subscribers
                      /\ <<k, h>> \in Entries(famEvents[f].subscriptions)}

\* C3: family superset invariant: every handler in a family's subscription
\* set for a kind is registered for that kind on the agent of every current
\* member (event agent for events, message agent for messages).
C3_FamilySuperset ==
    \A f \in Families :
        /\ \A d \in famEvents[f].subscribers : \A e \in Entries(famEvents[f].subscriptions) :
              e[2] \in AgentHandlers(agentSubscriptions, d, e[1])
        /\ \A d \in famMessages[f].subscribers : \A e \in Entries(famMessages[f].subscriptions) :
              e[2] \in MessageHandlers(messageSubscriptions, d, e[1])

\* The stores two call sequences end in hold the same subscriptions, members
\* and routing.
SameState(A, B) ==
    /\ A.hub = B.hub /\ A.sub = B.sub /\ A.msub = B.msub
    /\ A.fe = B.fe /\ A.fm = B.fm

\* C4: F.Subscribe(k, h); F.Add(d) and F.Add(d); F.Subscribe(k, h) end in the
\* same state, in which h is in F's set for k, d is a member of F, h is
\* registered for k on d's agent and d's queue is subscribed to k on the hub,
\* so that a broadcast or message of kind k invokes h on d.
C4_JoinOrder ==
    \A f \in Families, d \in {"c1", "c2"}, k \in Kinds, h \in Handlers :
        /\ LET A == FamilyAddTo(EventSubscriberSubscribe(Store, f, k, h), f, d)
               B == EventSubscriberSubscribe(FamilyAddTo(Store, f, d), f, k, h)
           IN  /\ SameState(A, B)
               /\ <<k, h>> \in Entries(A.fe[f].subscriptions)
               /\ d \in A.fe[f].subscribers
               /\ h \in AgentHandlers(A.sub, d, k)
               /\ d \in BroadcastTargets(A.hub, ClientHub[d], k)
               /\ DispatchCount(A, d, k, h) = 1
        /\ LET A == FamilyAddTo(MessageSubscriberSubscribe(Store, f, k, h), f, d)
               B == MessageSubscriberSubscribe(FamilyAddTo(Store, f, d), f, k, h)
           IN  /\ SameState(A, B)
               /\ <<k, h>> \in Entries(A.fm[f].subscriptions)
               /\ d \in A.fm[f].subscribers
               /\ h \in MessageHandlers(A.msub, d, k)

\* C5: after a family-level Unsubscribe(k, h), h is not in the family's set
\* for k, is registered for k on no current member's agent, is not run on a
\* member by a message or event of kind k, and a delegate that joins now does
\* not get h registered by joining.
C5_FamilyUnsubscribe ==
    /\ last.call.op = "FamilyEventsUnsubscribe" =>
          LET f == last.call.f
              k == last.call.kind
              h == last.call.h
          IN  /\ <<k, h>> \notin Entries(famEvents[f].subscriptions)
              /\ \A d \in famEvents[f].subscribers :
                    /\ h \notin AgentHandlers(agentSubscriptions, d, k)
                    /\ DispatchCount(Store, d, k, h) = 0
              /\ \A d \in Clients \ famEvents[f].subscribers :
                    h \in AgentHandlers(FamilyAddTo(Store, f, d).sub, d, k)
                        => h \in AgentHandlers(agentSubscriptions, d, k)
    /\ last.call.op = "FamilyMessagesUnsubscribe" =>
          LET f == last.call.f
              k == last.call.kind
              h == last.call.h
          IN  /\ <<k, h>> \notin Entries(famMessages[f].subscriptions)
              /\ \A d \in famMessages[f].subscribers :
                    h \notin MessageHandlers(messageSubscriptions, d, k)
              /\ \A d \in Clients \ famMessages[f].subscribers :
                    h \in MessageHandlers(FamilyAddTo(Store, f, d).msub, d, k)
                        => h \in MessageHandlers(messageSubscriptions, d, k)

\* Family f2 has just unsubscribed the handler it had registered for k1 while
\* c1, which had got it from the family, is a member.
C5_Witness ==
    /\ last.call = [op |-> "FamilyEventsUnsubscribe", f |-> "f2", kind |-> "k1", h |-> H1x]
    /\ "c1" \in famEvents["f2"].subscribers
    /\ "k1" \in DOMAIN famEvents["f2"].subscriptions
    /\ famEvents["f2"].subscriptions["k1"] = EmptyMap
    /\ "k1" \in DOMAIN agentSubscriptions["c1"]
    /\ agentSubscriptions["c1"]["k1"] = EmptyMap

\* C6: once member d has left family Fi, a broadcast of a kind registered by
\* a family d still belongs to runs that family's handlers on d exactly once,
\* a broadcast of a kind registered by Fi only runs no handler on d, and the
\* members that stayed in Fi still have Fi's handlers run.
C6_LeaveFamily ==
    (last.call.op = "FamilyRemove" /\ last.warns = <<>>) =>
        LET fi == last.call.f
            d  == last.call.d
            others == {f \in Families \ {fi} : d \in famEvents[f].subscribers}
        IN  /\ \A f \in others : \A e \in Entries(famEvents[f].subscriptions) :
                  DispatchCount(Store, d, e[1], e[2]) = 1
            /\ \A e \in Entries(famEvents[fi].subscriptions) :
                  (\A f \in others : \A o \in Entries(famEvents[f].subscriptions) : o[1] # e[1])
                      => Dispatch(Store, d, e[1]) = {}
            /\ \A m \in famEvents[fi].subscribers : \A e \in Entries(famEvents[fi].subscriptions) :
                  DispatchCount(Store, m, e[1], e[2]) = 1

\* C7: a handler h that several families of d hold for the same kind k is run
\* exactly once on d by a broadcast of k.
C7_OncePerBroadcast ==
    \A d \in Clients, k \in Kinds, h \in Handlers :
        Cardinality(FamiliesWith(d, k, h)) >= 2 => DispatchCount(Store, d, k, h) = 1
(***************************************************************************)
(* Removal of handlers                                                     *)
(***************************************************************************)
\* C11: a handler that Unsubscribe(k, h) removed from an agent, and that was
\* not passed to Subscribe again, is invoked by no event and no message of
\* kind k on that agent.
C11_NotInvokedAfterUnsubscribe ==
    [][/\ \A r \in BagToSet(invocations') :
             CopiesIn(r, invocations') > CopiesIn(r, invocations) =>
                 <<r.agent, bcasts[r.id].kind, r.handler>> \notin unsubscribed
       /\ \A r \in BagToSet(responses') :
             CopiesIn(r, responses') > CopiesIn(r, responses) =>
                 <<r.agent, r.kind, r.handler>> \notin messageUnsubscribed]_vars

\* c1 removed H1x for events and for messages of k1; the broadcast of k1 made
\* last ran the other handler of c1, and of two messages of k1 the first, which
\* came before the removal, ran H1x and the second did not.
C11_Witness ==
    /\ <<"c1", "k1", H1x>> \in unsubscribed
    /\ <<"c1", "k1", H1x>> \in messageUnsubscribed
    /\ last.call.op = "Broadcast"
    /\ \E r \in Invoked : r.id = last.call.id /\ r.agent = "c1" /\ r.handler = H2x
    /\ Len(messages) = 2
    /\ \E r \in BagToSet(responses) : r.id = 1 /\ r.agent = "c1" /\ r.handler = H1x
(***************************************************************************)
(* The registry of hubs                                                    *)
(***************************************************************************)
\* C12: NewHub(id) with an unregistered id allocates a hub with that ID and an
\* empty subscription table, registers it under id and returns it with a nil
\* error; with a registered id it returns the registered hub and
\* ErrDuplicateHubID and changes neither the registry nor any hub.
C12_NewHub ==
    [][(Len(hubCalls') > Len(hubCalls) /\ hubCalls'[Len(hubCalls')].op = "NewHub") =>
          LET call == hubCalls'[Len(hubCalls')] IN
          IF call.id \in DOMAIN hubs
          THEN /\ call.ret = hubs[call.id]
               /\ call.err = ErrDuplicateHubID
               /\ hubs' = hubs
               /\ hubInstances' = hubInstances
          ELSE /\ call.err = Nil
               /\ call.ret \notin DOMAIN hubInstances
               /\ call.ret \in DOMAIN hubInstances'
               /\ hubInstances'[call.ret] = [ID |-> call.id, subscriptions |-> EmptyMap]
               /\ \A i \in DOMAIN hubInstances : hubInstances'[i] = hubInstances[i]
               /\ DOMAIN hubs' = DOMAIN hubs \cup {call.id}
               /\ hubs'[call.id] = call.ret
               /\ \A id \in DOMAIN hubs : hubs'[id] = hubs[id]]_vars

\* NewHub("h1") was called twice: the second call returned the hub of the
\* first, which has a subscription by now, with ErrDuplicateHubID.
C12_Witness ==
    \E i, j \in DOMAIN hubCalls :
        /\ i < j
        /\ hubCalls[i] = [op |-> "NewHub", id |-> "h1", ret |-> hubCalls[i].ret, err |-> Nil]
        /\ hubCalls[j] = [op |-> "NewHub", id |-> "h1", ret |-> hubCalls[i].ret,
                          err |-> ErrDuplicateHubID]
        /\ hubInstances[hubCalls[i].ret].subscriptions # EmptyMap

\* C13: no two distinct Hub objects have the same ID.
C13_OneHubPerID ==
    \A i, j \in DOMAIN hubInstances : i # j => hubInstances[i].ID # hubInstances[j].ID

\* C14: every call of DefaultHub() returns the same Hub object.
C14_DefaultHubSingleton ==
    \A i, j \in DOMAIN hubCalls :
        (hubCalls[i].op = "DefaultHub" /\ hubCalls[j].op = "DefaultHub")
            => hubCalls[i].ret = hubCalls[j].ret
(***************************************************************************)
(* Broadcasts nobody listens to                                            *)
(***************************************************************************)
\* C15: a Broadcast of a kind no queue is subscribed to enqueues nothing,
\* returns at once and raises exactly one warning.
C15_NoListenersWarning ==
    (last.call.op = "Broadcast" /\ bcasts[last.call.id].targets = {}) =>
        /\ last.warns = <<ErrNoListeners>>
        /\ sending = NotSending
        /\ \A a \in Clients : \A j \in 1..Len(events[a]) : events[a][j].id # last.call.id
(***************************************************************************)
(* Keepalive configuration                                                 *)
(***************************************************************************)
\* C16: pingPeriod < pongTimeout always; SetPingPeriod(n) with n >= pongTimeout
\* and SetPongTimeout(n) with n <= pingPeriod return ErrIllegalPingTimeout and
\* change neither variable; any other call sets its variable to n.
C16_PingBelowPong ==
    /\ pingPeriod < pongTimeout
    /\ lastConfig.op = "SetPingPeriod" =>
          /\ pongTimeout = lastConfig.pongTimeout
          /\ IF lastConfig.n >= lastConfig.pongTimeout
             THEN lastConfig.err = ErrIllegalPingTimeout /\ pingPeriod = lastConfig.pingPeriod
             ELSE lastConfig.err = Nil /\ pingPeriod = lastConfig.n
    /\ lastConfig.op = "SetPongTimeout" =>
          /\ pingPeriod = lastConfig.pingPeriod
          /\ IF lastConfig.n <= lastConfig.pingPeriod
             THEN lastConfig.err = ErrIllegalPingTimeout /\ pongTimeout = lastConfig.pongTimeout
             ELSE lastConfig.err = Nil /\ pongTimeout = lastConfig.n

\* After both variables were changed, a SetPingPeriod(n) with n equal to the
\* pong timeout was rejected.
C16_Witness ==
    /\ lastConfig.op = "SetPingPeriod"
    /\ lastConfig.n = pongTimeout
    /\ lastConfig.err = ErrIllegalPingTimeout
    /\ pingPeriod # DefaultPingPeriod
    /\ pongTimeout # DefaultPongTimeout
(***************************************************************************)
(* Joining families                                                        *)
(***************************************************************************)
\* The families in the list fs.
ListedFamilies(fs) == {fs[i] : i \in 1..Len(fs)}

Quiet(S) == [S EXCEPT !.warns = <<>>]

\* Every warning in ws is ErrDuplicateDelegate, and there is one.
OnlyDuplicateDelegate(ws) ==
    ws # <<>> /\ \A i \in 1..Len(ws) : ws[i] = ErrDuplicateDelegate

\* C18: Add of a delegate that is already a member changes neither the member
\* set, nor the family's subscription sets, nor the member's handler sets,
\* nor the hub's subscription table, starts no listener, and raises
\* DuplicateDelegate warnings only; Add;Add ends in the state of one Add.
C18_DuplicateAdd ==
    \A f \in Families, d \in Clients :
        LET A == FamilyAddTo(Store, f, d)
            B == FamilyAddTo(Quiet(A), f, d)
        IN  /\ SameState(A, B)
            /\ B.spawned = A.spawned
            /\ OnlyDuplicateDelegate(B.warns)
            /\ hasMember(Store, f, d) =>
                  /\ SameState(Store, A)
                  /\ A.spawned = spawned
                  /\ OnlyDuplicateDelegate(A.warns)

\* c1 has just been added a second time to f2, which holds a handler that c1
\* got at its first Add.
C18_Witness ==
    /\ last.call = [op |-> "FamilyAdd", f |-> "f2", d |-> "c1"]
    /\ last.repeat
    /\ OnlyDuplicateDelegate(last.warns)
    /\ <<"k1", H1x>> \in Entries(famEvents["f2"].subscriptions)
    /\ H1x \in AgentHandlers(agentSubscriptions, "c1", "k1")
\* C19: hasMember(d) on family F is true iff the last successful membership
\* change of d on F was an Add: an Add of d to F leaves d a member of F, a
\* Remove leaves it a non-member, and no call changes the membership of any
\* other delegate or of d in any other family.
C19_MembershipPerFamily ==
    [][\A f \in Families, d \in Clients :
         LET changes == /\ steps' # steps
                        /\ last'.call.op \in {"FamilyAdd", "FamilyRemove"}
                        /\ last'.call.f = f
                        /\ last'.call.d = d
         IN  /\ (changes /\ last'.call.op = "FamilyAdd") => hasMember(Store, f, d)'
             /\ (changes /\ last'.call.op = "FamilyRemove") => ~hasMember(Store, f, d)'
             /\ ~changes => (hasMember(Store, f, d)' <=> hasMember(Store, f, d))]_vars

\* c1 was a member of f1 and f2 and has just left f1: it is still a member of
\* f2, and c2 is still a member of f2.
C19_Witness ==
    /\ last.call = [op |-> "FamilyRemove", f |-> "f1", d |-> "c1"]
    /\ last.warns = <<>>
    /\ ~hasMember(Store, "f1", "c1")
    /\ hasMember(Store, "f2", "c1")
    /\ hasMember(Store, "f2", "c2")
(***************************************************************************)
(* Outbound fan-out                                                        *)
(***************************************************************************)
\* C20: Family.PushMessage(payload, frameType) appends the payload exactly
\* once to the queue matching the frame type of every delegate that is a
\* member of the family when it is called, and changes no other queue: not
\* the other queue of a member, and no queue of a delegate that is not a
\* member; a frame type with no matching queue enqueues nothing.
C20_PushFanOut ==
    [][(steps' # steps /\ last'.call.op = "FamilyPushMessage") =>
         LET f == last'.call.f
             m == last'.call.m
             t == last'.call.messageType
         IN  \A d \in Clients :
                /\ sendText'[d] = IF hasMember(Store, f, d) /\ t = TextMessage
                                  THEN Append(sendText[d], m) ELSE sendText[d]
                /\ sendBinary'[d] = IF hasMember(Store, f, d) /\ t = BinaryMessage
                                    THEN Append(sendBinary[d], m) ELSE sendBinary[d]]_vars

\* Binary payloads go to f1 only. f1 has just been pushed one for the second
\* time: c1 holds both, c2, a member at the first push and removed since,
\* holds the first only.
C20_Witness ==
    /\ last.call = [op |-> "FamilyPushMessage", f |-> "f1", m |-> "m2",
                    messageType |-> BinaryMessage]
    /\ hasMember(Store, "f1", "c1")
    /\ ~hasMember(Store, "f1", "c2")
    /\ sendBinary["c1"] = <<"m2", "m2">>
    /\ sendBinary["c2"] = <<"m2">>
    /\ sendText["c1"] = <<>>
\* C21: PushMessage with a text frame type appends the payload to the text
\* queue only, with a binary frame type to the binary queue only, and with
\* any other frame type enqueues nothing and reports ErrBadMessageType.
C21_PushByFrameType ==
    \A c \in Clients, t \in {TextMessage, BinaryMessage, PingMessage} :
        LET R == ClientPushMessage(Queues, c, "m1", t)
        IN  /\ \A d \in Clients \ {c} : R.text[d] = sendText[d] /\ R.binary[d] = sendBinary[d]
            /\ t = TextMessage =>
                  /\ R.text[c] = Append(sendText[c], "m1")
                  /\ R.binary[c] = sendBinary[c]
                  /\ R.warns = <<>>
            /\ t = BinaryMessage =>
                  /\ R.binary[c] = Append(sendBinary[c], "m1")
                  /\ R.text[c] = sendText[c]
                  /\ R.warns = <<>>
            /\ t = PingMessage =>
                  /\ R.text[c] = sendText[c]
                  /\ R.binary[c] = sendBinary[c]
                  /\ R.warns = <<ErrBadMessageType>>
(***************************************************************************)
(* The connection                                                          *)
(***************************************************************************)
\* C22: cleanup is idempotent and safe under concurrency: whichever tasks
\* invoke it and however often, no invocation waits (an invocation on empty
\* queues included), no outbound queue is closed twice, and a task that has
\* finished its cleanups leaves the transport closed.
C22_CleanupIdempotent ==
    /\ panic # CloseOfClosedChannel
    /\ \A c \in Clients, task \in {"reader", "writer"} :
          /\ ~CleanupBlocked(View(c), conn[c][task].pc)
          /\ conn[c][task].pc = "done" => conn[c].transport = "closed"

\* C23: the teardown of one connection changes only that connection, and no
\* later push to it, directly or through a family it is still a member of,
\* ends the process with a send on a closed queue.
C23_TeardownIsLocal ==
    [][/\ panic' # SendOnClosedChannel
       /\ \A c \in Clients :
             conn'[c] # conn[c] =>
                /\ \A d \in Clients \ {c} :
                      /\ conn'[d] = conn[d]
                      /\ sendText'[d] = sendText[d]
                      /\ sendBinary'[d] = sendBinary[d]
                      /\ agentSubscriptions'[d] = agentSubscriptions[d]
                      /\ messageSubscriptions'[d] = messageSubscriptions[d]
                /\ hubSubscriptions' = hubSubscriptions]_vars

\* C24: when a frame that cannot be parsed is read, the error is reported, no
\* handler is run for the frame, the process does not panic, and the
\* connection and its read task are as before, ready for the next frame.
C24_UnparseableFrame ==
    [][(messages' # messages /\ messages'[Len(messages')].kind = Nil) =>
          /\ \E e \in reported' : e[1] = messages'[Len(messages')].agent
          /\ responses' = responses
          /\ panic' = Nil
          /\ conn' = conn]_vars

\* C25: a NewClient whose upgrade handshake fails returns the error and no
\* client, starts no read or write task and creates no event agent, and
\* subscribes nothing on the hub; one whose handshake succeeds returns a
\* client and has started exactly one read task and one write task.
C25_UpgradeFailure ==
    /\ \A i \in 1..Len(attempts) :
          LET a == attempts[i]
          IN  IF a.upgraded
              THEN /\ a.res.err = Nil /\ a.res.client # Nil
                   /\ a.res.readTasks = 1 /\ a.res.writeTasks = 1
              ELSE /\ a.res.err = ErrUpgrade /\ a.res.client = Nil
                   /\ a.res.readTasks = 0 /\ a.res.writeTasks = 0
                   /\ a.res.eventAgents = 0
    /\ hubSubscriptions = [h \in Hubs |-> EmptyMap]

\* A handshake on hA failed and a later one on the same hub succeeded.
C25_Witness ==
    \E i, j \in 1..Len(attempts) :
        /\ i < j
        /\ attempts[i].hub = "hA" /\ ~attempts[i].upgraded /\ attempts[i].res.client = Nil
        /\ attempts[j].hub = "hA" /\ attempts[j].upgraded /\ attempts[j].res.client # Nil

\* C26: once the read task of a connection has left its loop on a read error
\* or a close frame, the connection eventually is closed, with the transport
\* closed and both tasks ended, and once closed it stays closed.
C26_EventuallyClosed ==
    /\ \A c \in ConnClients :
          (conn[c].reader.pc # "read") ~>
              (/\ conn[c].transport = "closed"
               /\ conn[c].reader.pc = "done"
               /\ conn[c].writer.pc = "done")
    /\ [][\A c \in ConnClients :
             conn[c].transport = "closed" => conn'[c].transport = "closed"]_vars

\* C27: in the write task a failed write of a payload is reported and the
\* loop goes on; the loop ends, and messageCleanup runs, exactly when a ping
\* could not be written or a queue was found closed.
C27_WriteLoop ==
    \A c \in Clients :
        LET w == conn[c].writer
        IN  /\ w.last = "write failed" => (w.pc = "select" /\ <<c, ErrWrite>> \in reported)
            /\ w.last \in {"written", "pinged", "none"} => w.pc = "select"
            /\ w.last \in {"ping failed", "found closed"} => w.pc \in CleanupPcs \cup {"done"}
            /\ w.pc # "select" => w.last \in {"ping failed", "found closed"}

\* The write task of c1 failed to write a payload, went on, and has now ended
\* on a ping that failed while the transport is open.
C27_Witness ==
    /\ <<"c1", ErrWrite>> \in reported
    /\ conn["c1"].writer.last = "ping failed"
    /\ conn["c1"].writer.pc \in CleanupPcs
    /\ conn["c1"].transport = "open"
(***************************************************************************)
(* Dispatch order                                                          *)
(***************************************************************************)
\* C28: on one event agent the handlers are called for the events in the
\* order the events were enqueued, and no two events are being dispatched at
\* the same time.
C28_EventsInOrder ==
    /\ \A a \in Clients : Cardinality(inflight[a]) <= 1
    /\ \A i, j \in 1..Len(log) :
          (i < j /\ log[i].agent = log[j].agent) => log[i].id <= log[j].id

\* C29: the handlers of one kind are called, for each event, in the order in
\* which they were registered: c1 registered H1x before H2x.
C29_RegistrationOrder ==
    \A i, j \in 1..Len(log) :
        (i < j /\ log[i].agent = "c1" /\ log[j].agent = "c1" /\ log[i].id = log[j].id)
            => ~(log[i].handler = H2x /\ log[j].handler = H1x)

\* C30: however the Subscribe calls on an agent fall relative to the moment
\* its dispatch task sets the ready flag, at most one dispatch task receives
\* from the agent's queue.
C30_OneDispatchTask ==
    \A a \in Clients : listening[a] <= 1
(***************************************************************************)
(* Routing and registrations                                               *)
(***************************************************************************)
\* C36: an agent's queue is in its hub's subscription set for kind k exactly
\* when the agent has at least one handler registered for k; so a handler
\* left registered after another one was removed is still reached by a
\* broadcast of k.
C36_RoutingMatchesRegistrations ==
    \A a \in Clients, k \in Kinds :
        (a \in BroadcastTargets(hubSubscriptions, ClientHub[a], k))
            <=> (AgentHandlers(agentSubscriptions, a, k) # {})

\* The keys under which some family holds a handler for kind k.
FamilyKeys(k) ==
    UNION {IF k \in DOMAIN famEvents[f].subscriptions
           THEN DOMAIN famEvents[f].subscriptions[k] ELSE {} : f \in Families}

\* C37: when member d leaves family f, or f unsubscribes a handler of kind k,
\* a handler g that d registered for k on its own agent, and that no family
\* holds, stays registered on d and is still run on d by a broadcast of k.
C37_PrivateHandlerKept ==
    [][\A f \in Families, d \in Clients, k \in Kinds, g \in Handlers :
          (/\ steps' # steps
           /\ last'.call.op \in {"FamilyRemove", "FamilyEventsUnsubscribe"}
           /\ last'.call.f = f
           /\ d \in famEvents[f].subscribers
           /\ k \in DOMAIN famEvents[f].subscriptions
           /\ famEvents[f].subscriptions[k] # EmptyMap
           /\ g \in AgentHandlers(agentSubscriptions, d, k)
           /\ getEventHandlerKey(g) \notin FamilyKeys(k)
           /\ DispatchCount(Store, d, k, g) = 1)
          => /\ g \in AgentHandlers(agentSubscriptions', d, k)
             /\ DispatchCount(Store, d, k, g)' = 1]_vars
(***************************************************************************)
(* The default text parser                                                 *)
(***************************************************************************)
\* C40: the default text parser never crashes: an object with a string
\* valued kind gives a message of that kind and no error, an object with no
\* kind member or with a kind that is not a string gives
\* ErrUnparseableMessage and no message, and a payload that does not decode
\* gives the decoder's error and no message.
C40_ParserTotal ==
    \A i \in DOMAIN parsed :
        LET m == parsed[i].payload
            r == parsed[i].res
            stringKind == /\ "kind" \in DOMAIN m.fields
                          /\ m.fields["kind"].type = "string"
        IN  /\ r.panic = Nil
            /\ (m.json = "object" /\ stringKind) =>
                   /\ r.err = Nil
                   /\ Len(r.msg) = 1
                   /\ r.msg[1].kind = m.fields["kind"].value
            /\ (m.json = "object" /\ ~stringKind) =>
                   r.err = ErrUnparseableMessage /\ r.msg = <<>>
            /\ m.json # "object" =>
                   r.err \in {ErrJSONSyntax, ErrJSONType} /\ r.msg = <<>>
(***************************************************************************)
(* Accesses of the listen goroutine and of the caller of Subscribe         *)
(***************************************************************************)
\* The application thread can enter a Subscribe or Unsubscribe on agent a now:
\* the call reads a.ready and writes a.subscriptions.
CallerCanWrite(a) ==
    \E k \in Kinds, h \in Handlers : ENABLED Subscribe(a, k, h) \/ ENABLED Unsubscribe(a, k, h)

\* C35: the listen goroutine of an agent never reads the agent's handler
\* mapping, and never writes its ready flag, at a moment when another thread
\* can be in a Subscribe or Unsubscribe that writes the mapping or reads the
\* flag: the code takes no lock and nothing orders the two accesses, so the
\* two steps must never be possible in the same state.
C35_NoUnsynchronizedAccess ==
    \A a \in Clients :
        /\ ~(ENABLED ListenStart(a) /\ CallerCanWrite(a))
        /\ ~(ENABLED ListenTake(a) /\ CallerCanWrite(a))
(***************************************************************************)
(* The life of an event agent                                              *)
(***************************************************************************)
\* The agent has no handler left under any kind.
noEventSubscriptions(a) ==
    \A k \in DOMAIN agentSubscriptions[a] : agentSubscriptions[a][k] = EmptyMap

\* C31: when an agent whose dispatch task is running is left with no handler
\* for any kind, the dispatch task exits, unless a Subscribe gives the agent
\* a handler again first.
C31_AgentLifecycle ==
    \A a \in Clients :
        (listening[a] > 0 /\ noEventSubscriptions(a))
            ~> (listening[a] = 0 \/ ~noEventSubscriptions(a))
(***************************************************************************)
(* Event objects                                                           *)
(***************************************************************************)
\* The pointers agent a holds: in its queue and in its running dispatches.
Held(a) ==
    {events[a][j].ptr : j \in 1..Len(events[a])} \cup {d.ptr : d \in inflight[a]}

\* C38: every subscribed queue gets an Event object of its own for each
\* broadcast: no object is held by two agents, a handler running on agent a
\* sees a (or a's delegate) as Recipient and never the recipient another
\* agent wrote, and Kind, Data and Source of an object stay what Broadcast
\* put there.
C38_OwnEventPerQueue ==
    /\ \A a, b \in Clients : a # b => Held(a) \cap Held(b) = {}
    /\ \A i \in DOMAIN log :
          /\ log[i].event.Recipient \in {AgentRef(log[i].agent), ClientRef(log[i].agent)}
          /\ log[i].event.Kind = bcasts[log[i].id].kind
          /\ log[i].event.Data = DataOf(bcasts[log[i].id].data)
          /\ log[i].event.Source = bcasts[log[i].id].source
    /\ \A e \in DOMAIN heap :
          /\ heap[e].Kind = bcasts[e[1]].kind
          /\ heap[e].Data = DataOf(bcasts[e[1]].data)
          /\ heap[e].Source = bcasts[e[1]].source

\* c1 and c2 both ran their handler for the same broadcast, c1 after c2 had
\* written its recipient, and each saw its own recipient.
C38_Witness ==
    \E i, j \in DOMAIN log :
        /\ i < j
        /\ log[i].id = log[j].id
        /\ log[i].agent = "c2" /\ log[i].event.Recipient = AgentRef("c2")
        /\ log[j].agent = "c1" /\ log[j].event.Recipient = ClientRef("c1")
(***************************************************************************)
(* Backpressure                                                            *)
(***************************************************************************)
\* The positions of c1's queue that hold the event of broadcast i.
Queued(i) == {j \in 1..Len(events["c1"]) : events["c1"][j].id = i}

\* How many times c1's handler H1x has run for broadcast i.
Handled(i) ==
    LET r == [id |-> i, agent |-> "c1", handler |-> H1x,
              event |-> [Kind |-> "k1", Data |-> "payload", Recipient |-> AgentRef("c1"),
                         Source |-> ClientRef("c2")]]
    IN  IF r \in BagToSet(invocations) THEN CopiesIn(r, invocations) ELSE 0

\* The events followed one by one: the oldest of the backlog, the newest, and
\* those of the broadcasts made on top of the backlog.
Tracked == {1} \cup (Backlog..(Backlog + MaxOverflow))

\* C32: a queue never holds more than its capacity, and a Broadcast that
\* finds the queue full waits: the event of every broadcast made is either
\* still to be sent, or in the queue exactly once, in the order of the
\* broadcasts, or has been dispatched exactly once; and under fair scheduling
\* of the goroutines every event in the queue is eventually dispatched, so
\* that the queue ends up empty with every broadcast dispatched.
C32_BackpressureNoLoss ==
    /\ [](\A a \in Clients : Len(events[a]) <= EventQueueCap)
    /\ [](\A i \in DOMAIN bcasts :
            IF sending.id = i
            THEN Queued(i) = {} /\ Handled(i) = 0
            ELSE Cardinality(Queued(i)) + Handled(i) = 1)
    /\ [](\A j \in 1..(Len(events["c1"]) - 1) :
            events["c1"][j].id < events["c1"][j + 1].id)
    /\ \A i \in Tracked : (Queued(i) # {}) ~> (Handled(i) = 1)
    /\ <>[](events["c1"] = <<>> /\ sending = NotSending)

\* A Broadcast is waiting for room in c1's full queue.
C32_Witness ==
    /\ sending # NotSending
    /\ "c1" \in sending.todo
    /\ Len(events["c1"]) = EventQueueCap
(***************************************************************************)
(* Broadcast from inside a handler                                         *)
(***************************************************************************)
\* A handler running on the only listen goroutine of agent a is inside a
\* Broadcast that has still to send to a's own queue.
SendsToItself(a) ==
    /\ calling[a] # NotSending
    /\ a \in calling[a].todo
    /\ listening[a] = 1
    /\ spawned[a] = 0

\* Such a Broadcast when the queue is full.
Deadlocked(a) == SendsToItself(a) /\ Len(events[a]) = EventQueueCap

\* C33: a Broadcast made by a handler on the dispatch task of agent a, for a
\* kind a's queue is subscribed to, can send to a's queue exactly when the
\* queue is not full, and the event then waits at the end of the queue for
\* its dispatch; when the queue is full the send cannot proceed, and from then
\* on the queue, the Broadcast and the dispatch task never change again.
C33_ReentrantBroadcast ==
    /\ [](\A a \in Clients :
            SendsToItself(a) =>
                ((ENABLED HandlerSend(a, a)) <=> (Len(events[a]) < EventQueueCap)))
    /\ [][\A a \in Clients :
             /\ (SendsToItself(a) /\ ~Deadlocked(a) /\ calling'[a] # calling[a]) =>
                    /\ Len(events'[a]) = Len(events[a]) + 1
                    /\ events'[a][Len(events'[a])].id = calling[a].id
             /\ Deadlocked(a) =>
                    /\ Deadlocked(a)'
                    /\ events'[a] = events[a]
                    /\ calling'[a] = calling[a]
                    /\ inflight'[a] = inflight[a]
                    /\ log' = log]_vars

\* The handler's first Broadcast found room and its event waits in c1's queue;
\* the application filled the queue, and the handler's next Broadcast is
\* stuck on the full queue of its own agent.
C33_Witness ==
    /\ Deadlocked("c1")
    /\ \E j \in 1..Len(events["c1"]) :
          bcasts[events["c1"][j].id].source = AgentRef("c1")
(***************************************************************************)
(* The factory statement by statement.  NewClient and NewMessageAgent call *)
(* connect first; connect upgrades the connection and starts the read and  *)
(* the write goroutine; only after connect has returned does the factory   *)
(* make the outbound queues and then the handler-set maps.  The goroutines *)
(* run from the moment they are started.                                   *)
(***************************************************************************)
SetupRest == <<pubsubVars, messageVars, registryVars, configVars, sendVars, connVars,
               dispatchVars, parsed, heap, calling, running>>

\* connect: the upgrade fails and the factory returns the error, or it
\* succeeds and both goroutines are started.
SetupConnect(n, upgraded) ==
    /\ setup[n].pc = "none"
    /\ setup' = [setup EXCEPT ![n] =
                    IF upgraded
                    THEN [@ EXCEPT !.pc = "connected", !.reader = "started",
                                   !.writer = "started"]
                    ELSE [@ EXCEPT !.pc = "failed"]]
    /\ UNCHANGED SetupRest

\* sendText and sendBinary are made.
SetupMakeQueues(n) ==
    /\ setup[n].pc = "connected"
    /\ setup' = [setup EXCEPT ![n] = [@ EXCEPT !.pc = "queues", !.queues = "made"]]
    /\ UNCHANGED SetupRest

\* The subscription maps are made and the factory returns.
SetupMakeSubscriptions(n) ==
    /\ setup[n].pc = "queues"
    /\ setup' = [setup EXCEPT ![n] = [@ EXCEPT !.pc = "made", !.subscriptions = "made"]]
    /\ UNCHANGED SetupRest

\* One turn of the write loop: the select evaluates c.sendText and
\* c.sendBinary; the goroutine is recorded with what it selected on.
WriterSelect(n) ==
    /\ setup[n].writer # "none"
    /\ setup' = [setup EXCEPT ![n].writer = setup[n].queues]
    /\ UNCHANGED SetupRest

\* One turn of the read loop: a frame has come in and receiveMessage looks
\* its kind up in the subscription map; the goroutine is recorded with the
\* map it read.
ReaderReceive(n) ==
    /\ setup[n].reader # "none"
    /\ setup' = [setup EXCEPT ![n].reader = setup[n].subscriptions]
    /\ UNCHANGED SetupRest

SetupNext ==
    \/ \E n \in Connections, upgraded \in BOOLEAN : SetupConnect(n, upgraded)
    \/ \E n \in Connections : SetupMakeQueues(n)
    \/ \E n \in Connections : SetupMakeSubscriptions(n)
    \/ \E n \in Connections : WriterSelect(n)
    \/ \E n \in Connections : ReaderReceive(n)

SpecSetup == Init /\ [][SetupNext]_vars

\* C39: after a successful connect no goroutine selects on a queue or reads
\* a subscription map that the factory has not made yet.
C39_InitializedBeforeUse ==
    \A n \in Connections : setup[n].writer # "nil" /\ setup[n].reader # "nil"

(***************************************************************************)
(* The family cascade under concurrent calls                               *)
(***************************************************************************)
\* C34: when no thread is inside a call on a family, every handler the
\* family holds is registered on the agent of every member, and every handler
\* registered on an agent (none was registered directly here) is one that a
\* family of which the agent is a member holds.
C34_CascadeConsistent ==
    (\A t \in Threads : running[t] = Idle) =>
        /\ \A f \in Families : \A d \in famEvents[f].subscribers :
              \A e \in Entries(famEvents[f].subscriptions) :
                  e[2] \in AgentHandlers(agentSubscriptions, d, e[1])
        /\ \A d \in Clients, k \in Kinds :
              \A h \in AgentHandlers(agentSubscriptions, d, k) :
                  \E f \in Families : /\ d \in famEvents[f].subscribers
                                      /\ <<k, h>> \in Entries(famEvents[f].subscriptions)
====
